---- MODULE Spec2Model ----
(***************************************************************************)
(* Bobby: a Discord bot that forwards questions to the Claude Code CLI.    *)
(* src/index.js holds two variants of the program:                         *)
(*   - the thread variant (lines 1-562): one thread per conversation, the  *)
(*     subprocess's stream-json output projected onto thread messages, the *)
(*     session id kept in the thread's name;                               *)
(*   - the rate-limited variant (lines 564-906): a per-user request        *)
(*     counter in SQLite and a Markdown memory store.                      *)
(* Strings are sequences of symbols: a symbol is one character, or a fixed *)
(* literal of the source that the program only ever handles whole.         *)
(***************************************************************************)
EXTENDS Integers, Sequences, FiniteSets, TLC

\* ------------------------------------------------------------------------
\* Strings
\* ------------------------------------------------------------------------

\* JavaScript's null, as opposed to the empty string << >>.
Null == <<"<null>">>

\* JavaScript truthiness of a string-or-null value.
Truthy(x) == x # Null /\ x # << >>

\* a || b
OrElse(a, b) == IF Truthy(a) THEN a ELSE b

\* Characters that String.prototype.trim removes and \s matches.
IsSpace(c) == c \in {" ", "\n", "\t"}

RECURSIVE TrimStart(_)
TrimStart(s) ==
  IF s # << >> /\ IsSpace(Head(s)) THEN TrimStart(Tail(s)) ELSE s

RECURSIVE TrimEnd(_)
TrimEnd(s) ==
  IF s # << >> /\ IsSpace(s[Len(s)]) THEN TrimEnd(SubSeq(s, 1, Len(s) - 1)) ELSE s

\* String.prototype.trim
Trim(s) == TrimEnd(TrimStart(s))

\* String.prototype.startsWith
StartsWith(s, prefix) ==
  /\ Len(s) >= Len(prefix)
  /\ SubSeq(s, 1, Len(prefix)) = prefix

\* String.prototype.includes, for a literal that is one symbol.
Includes(s, sym) == \E i \in 1..Len(s) : s[i] = sym

\* String.prototype.toLowerCase, symbol by symbol.
LowerOf ==
  [c \in {"B", "G", "Q", "Bobby", "BOBBY", "@Bobby"} |->
     CASE c = "B" -> "b" [] c = "G" -> "g" [] c = "Q" -> "q"
       [] c = "Bobby" -> "bobby" [] c = "BOBBY" -> "bobby" [] c = "@Bobby" -> "@bobby"]

Lower(c) == IF c \in DOMAIN LowerOf THEN LowerOf[c] ELSE c

toLowerCase(s) == [i \in 1..Len(s) |-> Lower(s[i])]

RECURSIVE Concat(_)
\* Array.prototype.join('') of a sequence of strings.
Concat(ss) == IF ss = << >> THEN << >> ELSE Head(ss) \o Concat(Tail(ss))

\* ------------------------------------------------------------------------
\* Rate limiter (rate-limited variant)
\* ------------------------------------------------------------------------

Users == {"u1", "u2"}

\* The window of checkRateLimit, in milliseconds, and its request budget.
HourMs == 3600000
RateLimitMax == 20

\* Date.now() is observed at 0, at the window's length and up to MaxSkew ms
\* after it.
MaxSkew == 1
Times == {0} \cup (HourMs..(HourMs + MaxSkew))

VARIABLES
  now,          \* Date.now()
  rate_limits,  \* the rate_limits table: user_id -> [last_request, request_count]
  streak,       \* per user: calls made so far in an unbroken run that started
                \* with no row and in which every call came at most HourMs after
                \* the previous accepted call (capped at RateLimitMax + 1);
                \* -1 once a call came later than that
  lastResult,   \* per user: what the latest checkRateLimit call returned
  lastAccepted, \* per user: when the latest call that returned true was made
                \* (-1: never)
  admitted,     \* per user: calls that returned true since the last gap of
                \* more than HourMs between two such calls
  sinceLast,    \* per user: calls that returned true at or after the time of
                \* the latest call that returned true
  flip          \* per user: a bit that every checkRateLimit call for the user
                \* inverts

rlVars ==
  <<now, rate_limits, streak, lastResult, lastAccepted, admitted, sinceLast, flip>>

\* `now - rateLimit.last_request > 3600000`
\* (WindowExpiredAtHour: the test with `>=`.)
WindowExpiredAtHour(row, t) == (t - row.last_request) >= HourMs
WindowExpired(row, t) == (t - row.last_request) > HourMs

\* `rateLimit.request_count < 20`
\* (UnderLimitOffByOne: the test with `<=`, which admits a 21st call.)
UnderLimitOffByOne(row) == row.request_count <= RateLimitMax
UnderLimit(row) == row.request_count < RateLimitMax

\* `!rateLimit || (now - rateLimit.last_request) > 3600000`
\* (FreshWindowOnlyWhenAbsent: the test without its second half.)
FreshWindowOnlyWhenAbsent(tbl, userId, t) == userId \notin DOMAIN tbl
FreshWindow(tbl, userId, t) ==
  \/ userId \notin DOMAIN tbl
  \/ WindowExpired(tbl[userId], t)

\* The value checkRateLimit returns.
checkRateLimit(tbl, userId, t) ==
  IF FreshWindow(tbl, userId, t) THEN TRUE ELSE UnderLimit(tbl[userId])

\* INSERT OR REPLACE / UPDATE of one row.
PutRow(tbl, userId, row) ==
  [x \in DOMAIN tbl \cup {userId} |-> IF x = userId THEN row ELSE tbl[x]]

\* The table checkRateLimit leaves behind.
\* (checkRateLimitTableTouch: a denial that records its time.)
checkRateLimitTableTouch(tbl, userId, t) ==
  IF FreshWindow(tbl, userId, t)
    THEN PutRow(tbl, userId, [last_request |-> t, request_count |-> 1])
  ELSE PutRow(tbl, userId, [last_request |-> t,
                            request_count |-> IF UnderLimit(tbl[userId])
                                                THEN tbl[userId].request_count + 1
                                                ELSE tbl[userId].request_count])
\* (checkRateLimitTableStale: the UPDATE writing the count back unchanged.)
checkRateLimitTableStale(tbl, userId, t) ==
  IF FreshWindow(tbl, userId, t)
    THEN PutRow(tbl, userId, [last_request |-> t, request_count |-> 1])
  ELSE IF UnderLimit(tbl[userId])
    THEN PutRow(tbl, userId, [last_request |-> t,
                              request_count |-> tbl[userId].request_count])
  ELSE tbl
checkRateLimitTable(tbl, userId, t) ==
  IF FreshWindow(tbl, userId, t)
    THEN PutRow(tbl, userId, [last_request |-> t, request_count |-> 1])
  ELSE IF UnderLimit(tbl[userId])
    THEN PutRow(tbl, userId, [last_request |-> t,
                              request_count |-> tbl[userId].request_count + 1])
  ELSE tbl

\* The observers of a user's calls (see streak, lastAccepted, admitted): they
\* read the clock and the values returned, never the table.
LongGap(userId, t) == lastAccepted[userId] # -1 /\ t - lastAccepted[userId] > HourMs

StreakAfter(userId, t) ==
  IF streak[userId] = -1 \/ LongGap(userId, t) THEN -1
  ELSE IF streak[userId] > RateLimitMax THEN streak[userId]
  ELSE streak[userId] + 1

AdmittedAfter(userId, t) ==
  IF lastAccepted[userId] = -1 \/ LongGap(userId, t) THEN 1 ELSE admitted[userId] + 1

\* One call of checkRateLimit(userId) at the current time.
CheckRateLimit(userId) ==
  LET ok == checkRateLimit(rate_limits, userId, now) IN
  /\ rate_limits' = checkRateLimitTable(rate_limits, userId, now)
  /\ lastResult' = [lastResult EXCEPT ![userId] = ok]
  /\ streak' = [streak EXCEPT ![userId] = StreakAfter(userId, now)]
  /\ lastAccepted' = [lastAccepted EXCEPT ![userId] = IF ok THEN now ELSE @]
  /\ admitted' = [admitted EXCEPT ![userId] = IF ok THEN AdmittedAfter(userId, now) ELSE @]
  /\ sinceLast' = [sinceLast EXCEPT ![userId] =
                     IF ~ok THEN @ ELSE IF lastAccepted[userId] = now THEN @ + 1 ELSE 1]
  /\ flip' = [flip EXCEPT ![userId] = ~@]
  /\ UNCHANGED now

\* Time passes.
Tick ==
  /\ \E t \in Times :
       /\ t > now
       /\ now' = t
  /\ UNCHANGED <<rate_limits, streak, lastResult, lastAccepted, admitted, sinceLast, flip>>

\* ------------------------------------------------------------------------
\* Memory store and message handler (rate-limited variant)
\* ------------------------------------------------------------------------

Handlers == {"h1", "h2"}

\* Handlers: the executions of the MessageCreate handler, one per message; they
\* overlap at their awaits or follow one another.
VARIABLES
  files,      \* the file system: path -> content, for the files that exist
  hb          \* per handler execution: its position and locals

memVars == <<files>>
hbVars == <<hb>>

CLAUDE_MD_PATH == <<"CLAUDE.md">>
\* A document is a sequence of parts: a fixed text, a topic file's heading, a
\* query/response block, the index's placeholder line or a link line.
Part(kind, topic, query, response) ==
  [kind |-> kind, topic |-> topic, query |-> query, response |-> response]

\* '- No memories stored yet'
PlaceholderLine == Part("placeholder", << >>, << >>, << >>)

\* What initClaudeMd writes: the fixed text, then the placeholder line.
InitialClaudeMd == <<Part("text", << >>, << >>, << >>), PlaceholderLine>>

\* topic.toLowerCase().replace(/[^a-z0-9]/g, '-')
LowerAlnum ==
  {"a", "b", "c", "d", "e", "f", "g", "i", "l", "n", "q", "r", "s", "u",
   "0", "1", "2", "3"}
safeFilename(topic) ==
  [i \in 1..Len(topic) |->
     IF Lower(topic[i]) \in LowerAlnum THEN Lower(topic[i]) ELSE "-"]

\* path.join(DOCS_DIR, `${safeFilename}.md`)
filePath(topic) == <<"docs/">> \o safeFilename(topic) \o <<".md">>

TopicBugs == <<"B", "u", "g", "s">>
TopicGeneral ==
  <<"G", "e", "n", "e", "r", "a", "l", " ", "Q", "u", "e", "r", "i", "e", "s">>

\* `# ${topic}\n\n` and `## Query: ${query}\n\n${response}\n\n---\n`
\* and `- [${topic}](docs/${safeFilename}.md)`
HeadingOf(topic) == Part("heading", topic, << >>, << >>)
BlockOf(query, response) == Part("block", << >>, query, response)
LinkLine(topic) == Part("link", topic, << >>, << >>)

\* String.prototype.replace(PlaceholderLine, link): the first occurrence only.
RECURSIVE ReplacePlaceholder(_, _)
ReplacePlaceholder(md, link) ==
  IF md = << >> THEN << >>
  ELSE IF Head(md) = PlaceholderLine THEN <<link>> \o Tail(md)
  ELSE <<Head(md)>> \o ReplacePlaceholder(Tail(md), link)

WriteFile(fs, path, content) ==
  [x \in DOMAIN fs \cup {path} |-> IF x = path THEN content ELSE fs[x]]

\* isCallingBobby: content.toLowerCase().includes('bobby')
IsBobbySym(c) == Lower(c) \in {"bobby", "@bobby"}
isCallingBobby(content) == \E i \in 1..Len(content) : IsBobbySym(content[i])

\* content.replace(/bobby|@bobby/gi, '')
RECURSIVE RemoveBobby(_)
RemoveBobby(s) ==
  IF s = << >> THEN << >>
  ELSE IF IsBobbySym(Head(s)) THEN RemoveBobby(Tail(s))
  ELSE <<Head(s)>> \o RemoveBobby(Tail(s))

extractQuery(content) == Trim(RemoveBobby(content))

\* Message texts received.
ContentsB == { <<"w">>, <<"Bobby">>, <<"q", " ", "@Bobby">>, <<"BOBBY", " ", "r">> }

\* Standard outputs of `claude -p`.
StdoutsB == { <<"w">>, <<"w", " ", "I've created an issue", "w">> }

\* stdout.match(/created (an? )?issue|issue created|created github issue/i)
IssueRegexHit(c) == c \in {"created an issue", "I've created an issue"}
isBugDetectedB(stdout) == \E i \in 1..Len(stdout) : IssueRegexHit(stdout[i])

\* The issueCreationMarkers loop: the text before the first marker found at
\* an index > 0, plus the fixed note.
IsIssueMarker(c) == c \in {"I've created an issue"}
MarkerIndexes(s) == {i \in 2..Len(s) : IsIssueMarker(s[i])}
IssueNote == "I've identified a bug related to this and created a GitHub issue to track it."
userResponseB(stdout) ==
  IF isBugDetectedB(stdout) /\ MarkerIndexes(stdout) # {}
    THEN LET i == CHOOSE k \in MarkerIndexes(stdout) : \A m \in MarkerIndexes(stdout) : k <= m
         IN SubSeq(stdout, 1, i - 1) \o <<IssueNote>>
    ELSE stdout

RateLimitNotice == <<"You have exceeded the rate limit. Please try again later.">>
SorryNotice == <<"Sorry, I encountered an error while processing your request.">>

NoResultB == [success |-> FALSE, response |-> Null, isBug |-> FALSE]

IdleB ==
  [pc |-> "idle", author |-> "u1", bot |-> FALSE, query |-> << >>, rl |-> "none", spawned |-> FALSE,
   result |-> NoResultB, content |-> << >>, md |-> << >>, saved |-> "none",
   ioErrors |-> {}, calls |-> << >>, threw |-> FALSE]

\* A platform call made by a handler and whether the platform accepted it.
Call(op, text, ok) == [op |-> op, text |-> text, ok |-> ok]

\* The handler returns (or its promise rejects, threw): its locals are gone.
FinishB(r, call) ==
  [r EXCEPT !.pc = "done", !.calls = Append(@, call), !.threw = ~call.ok,
            !.query = << >>, !.content = << >>, !.md = << >>]

\* `const topic = isBug ? 'Bugs' : 'General Queries'`
topicOf(r) == IF r.isBug THEN TopicBugs ELSE TopicGeneral


\* The handler's code up to its first await: the bot filter, the wake word,
\* the query, and checkRateLimit (synchronous: bun:sqlite's query and run do
\* not yield), for a message with the given author, bot flag and text.
MessageCreateB(h) ==
  /\ hb[h].pc = "idle"
  /\ \E author \in Users, bot \in BOOLEAN, content \in ContentsB :
       LET fresh == [IdleB EXCEPT !.author = author, !.query = extractQuery(content)] IN
       IF bot \/ ~isCallingBobby(content) \/ ~Truthy(extractQuery(content))
         THEN /\ hb' = [hb EXCEPT ![h] = [IdleB EXCEPT !.author = author, !.bot = bot,
                                                       !.pc = "done"]]
              /\ UNCHANGED rlVars
         ELSE /\ CheckRateLimit(author)
              /\ hb' = [hb EXCEPT ![h] =
                   IF checkRateLimit(rate_limits, author, now)
                     THEN [fresh EXCEPT !.pc = "sendTyping", !.rl = "allowed"]
                     ELSE [fresh EXCEPT !.pc = "replyLimit", !.rl = "denied"]]
  /\ UNCHANGED memVars

\* `await message.reply('You have exceeded the rate limit...'); return;`
ReplyLimitB(h) ==
  /\ hb[h].pc = "replyLimit"
  /\ \E ok \in BOOLEAN :
       hb' = [hb EXCEPT ![h] = FinishB(@, Call("reply", RateLimitNotice, ok))]
  /\ UNCHANGED <<rlVars, memVars>>

\* `await message.channel.sendTyping();`
SendTypingB(h) ==
  /\ hb[h].pc = "sendTyping"
  /\ \E ok \in BOOLEAN :
       hb' = [hb EXCEPT ![h] =
         IF ok THEN [@ EXCEPT !.pc = "claude",
                              !.calls = Append(@, Call("sendTyping", << >>, TRUE))]
         ELSE FinishB(@, Call("sendTyping", << >>, FALSE))]
  /\ UNCHANGED <<rlVars, memVars>>

\* What processWithClaude(query) returns for a subprocess that wrote stdout
\* and stderr and exited with exitCode; `thrown` is spawn or a read throwing.
processWithClaudeB(thrown, stdout, stderr, exitCode) ==
  IF thrown
    THEN [success |-> FALSE, response |-> <<"Error processing your request.">>,
          isBug |-> FALSE]
  ELSE IF exitCode # 0 \/ Truthy(stderr)
    THEN [success |-> FALSE, response |-> <<"Error processing with Claude Code.">>,
          isBug |-> FALSE]
  ELSE [success |-> TRUE, response |-> userResponseB(stdout),
        isBug |-> isBugDetectedB(stdout)]

\* `await processWithClaude(query)`: the subprocess is launched and runs to
\* its exit.
ProcessWithClaudeB(h) ==
  /\ hb[h].pc = "claude"
  /\ \E thrown \in BOOLEAN, stdout \in StdoutsB, stderr \in {<< >>, <<"E">>},
        exitCode \in {0, 1} :
       LET r == processWithClaudeB(thrown, stdout, stderr, exitCode) IN
       hb' = [hb EXCEPT ![h].spawned = TRUE,
                        ![h].result = r,
                        ![h].pc = IF r.success THEN "saveAccess" ELSE "replyError"]
  /\ UNCHANGED <<rlVars, memVars>>

\* saveToMemory, one action per await.  ioOk is the file system call going
\* through; a call on a file that does not exist fails whatever ioOk is.
\* ioErrors keeps the calls that failed, for the properties only.
\* `await fs.access(filePath)`
SaveAccess(h, ioOk) ==
  /\ hb[h].pc = "saveAccess"
  /\ hb' = IF ioOk /\ filePath(topicOf(hb[h].result)) \in DOMAIN files
             THEN [hb EXCEPT ![h].pc = "saveRead"]
             ELSE [hb EXCEPT ![h].pc = "saveCreate", ![h].ioErrors = @ \cup {"access"}]
  /\ UNCHANGED <<rlVars, memVars>>

\* `const content = await fs.readFile(filePath, 'utf8')`
SaveRead(h, ioOk) ==
  /\ hb[h].pc = "saveRead"
  /\ LET path == filePath(topicOf(hb[h].result)) IN
     hb' = IF ioOk /\ path \in DOMAIN files
             THEN [hb EXCEPT ![h].pc = "saveAppend", ![h].content = files[path]]
             ELSE [hb EXCEPT ![h].pc = "saveCreate", ![h].ioErrors = @ \cup {"readFile"}]
  /\ UNCHANGED <<rlVars, memVars>>

\* `await fs.writeFile(filePath, updatedContent)` of the exists branch
SaveAppend(h, ioOk) ==
  /\ hb[h].pc = "saveAppend"
  /\ LET r == hb[h].result
         updatedContent == Append(hb[h].content, BlockOf(hb[h].query, r.response)) IN
     IF ioOk
       THEN /\ files' = WriteFile(files, filePath(topicOf(r)), updatedContent)
            /\ hb' = [hb EXCEPT ![h].pc = "replyAnswer", ![h].saved = "true"]
       ELSE /\ hb' = [hb EXCEPT ![h].pc = "saveCreate",
                                     ![h].ioErrors = @ \cup {"writeFile"}]
            /\ UNCHANGED files
  /\ UNCHANGED rlVars

\* The inner catch: `await fs.writeFile(filePath, content)` of a new file
SaveCreate(h, ioOk) ==
  /\ hb[h].pc = "saveCreate"
  /\ LET r == hb[h].result
         content == <<HeadingOf(topicOf(r)), BlockOf(hb[h].query, r.response)>> IN
     IF ioOk
       THEN /\ files' = WriteFile(files, filePath(topicOf(r)), content)
            /\ hb' = [hb EXCEPT ![h].pc = "saveIndexRead"]
       ELSE /\ hb' = [hb EXCEPT ![h].pc = "replyAnswer", ![h].saved = "false",
                                     ![h].ioErrors = @ \cup {"writeFile"}]
            /\ UNCHANGED files
  /\ UNCHANGED rlVars

\* `const claudeMd = await fs.readFile(CLAUDE_MD_PATH, 'utf8')`
SaveIndexRead(h, ioOk) ==
  /\ hb[h].pc = "saveIndexRead"
  /\ hb' = IF ioOk /\ CLAUDE_MD_PATH \in DOMAIN files
             THEN [hb EXCEPT ![h].pc = "saveIndexWrite", ![h].md = files[CLAUDE_MD_PATH]]
             ELSE [hb EXCEPT ![h].pc = "replyAnswer", ![h].saved = "false",
                             ![h].ioErrors = @ \cup {"readFile"}]
  /\ UNCHANGED <<rlVars, memVars>>

\* `await fs.writeFile(CLAUDE_MD_PATH, updatedClaudeMd)`
SaveIndexWrite(h, ioOk) ==
  /\ hb[h].pc = "saveIndexWrite"
  /\ LET updatedClaudeMd == ReplacePlaceholder(hb[h].md, LinkLine(topicOf(hb[h].result))) IN
     IF ioOk
       THEN /\ files' = WriteFile(files, CLAUDE_MD_PATH, updatedClaudeMd)
            /\ hb' = [hb EXCEPT ![h].pc = "replyAnswer", ![h].saved = "true"]
       ELSE /\ hb' = [hb EXCEPT ![h].pc = "replyAnswer", ![h].saved = "false",
                                     ![h].ioErrors = @ \cup {"writeFile"}]
            /\ UNCHANGED files
  /\ UNCHANGED rlVars

\* `await message.reply(response)`
ReplyAnswerB(h) ==
  /\ hb[h].pc = "replyAnswer"
  /\ \E ok \in BOOLEAN :
       hb' = [hb EXCEPT ![h] = FinishB(@, Call("reply", hb[h].result.response, ok))]
  /\ UNCHANGED <<rlVars, memVars>>

\* `await message.reply('Sorry, I encountered an error...')`
ReplyErrorB(h) ==
  /\ hb[h].pc = "replyError"
  /\ \E ok \in BOOLEAN :
       hb' = [hb EXCEPT ![h] = FinishB(@, Call("reply", SorryNotice, ok))]
  /\ UNCHANGED <<rlVars, memVars>>


\* ------------------------------------------------------------------------
\* Thread variant: session registry and response projector
\* ------------------------------------------------------------------------

\* Lines read from one subprocess's standard output: when processWithClaude
\* is exercised on its own, and when a whole handler execution is.
MaxEvents == 3
MaxEventsHandled == 2

BobbyDash == <<"Bobby", " ", "-", " ">>
Dash == <<" ", "-", " ">>
PendingName == <<"Bobby", " ", "[PENDING]">>

\* [a-f0-9-]
HexDash == {"a", "b", "c", "d", "e", "f", "0", "1", "2", "3", "-"}
\* (IsAnyToken: a group `(.+)`, which takes any characters.)
IsAnyToken(s) == s # << >>
IsHexDashToken(s) == s # << >> /\ \A i \in 1..Len(s) : s[i] \in HexDash

\* threadName.match(/Bobby - .+ - ([a-f0-9-]+)$/): the pairs <<i, k>> such that
\* "Bobby - " starts at i, `.+` ends at k, " - " follows and the rest of the
\* name is the token.
SessionMatches(name) ==
  {m \in (1..Len(name)) \X (1..Len(name)) :
     /\ m[2] >= m[1] + 4
     /\ m[2] + 3 < Len(name)
     /\ SubSeq(name, m[1], m[1] + 3) = BobbyDash
     /\ \A x \in (m[1] + 4)..m[2] : name[x] # "\n"
     /\ SubSeq(name, m[2] + 1, m[2] + 3) = Dash
     /\ IsHexDashToken(SubSeq(name, m[2] + 4, Len(name)))}

\* The match JavaScript reports: the leftmost start, `.+` as long as it can be.
extractSessionId(threadName) ==
  LET ms == SessionMatches(threadName) IN
  IF ms = {} THEN Null
  ELSE LET m == CHOOSE a \in ms : \A b \in ms :
                  a[1] < b[1] \/ (a[1] = b[1] /\ a[2] >= b[2])
       IN SubSeq(threadName, m[2] + 4, Len(threadName))

\* message.channel.name.startsWith('Bobby -')
HasBobbyPrefix(name) == StartsWith(name, <<"Bobby", " ", "-">>)

\* The title marker /\[THREAD_TITLE:\s*([^\]]+)\]/.
TitleOpen == "[THREAD_TITLE:"

\* The first "]" after position i, or 0.
FirstClose(s, i) ==
  LET js == {j \in (i + 1)..Len(s) : s[j] = "]"} IN
  IF js = {} THEN 0 ELSE CHOOSE j \in js : \A k \in js : j <= k

\* The tag written in two pieces, which other text may separate.
TagLeft == "[THREAD_"
TagRight == "TITLE:"

\* The number of symbols of the tag that starts at i, 0 when none does.
TagLen(s, i) ==
  IF s[i] = TitleOpen THEN 1
  ELSE IF i < Len(s) /\ s[i] = TagLeft /\ s[i + 1] = TagRight THEN 2
  ELSE 0

\* The marker matches at i: the tag, at least one character that is not "]",
\* then "]".
MarkerAt(s, i) == TagLen(s, i) > 0 /\ FirstClose(s, i) >= i + TagLen(s, i) + 1

\* content.match(...): the leftmost match, as <<start, end>>, or << >>.
titleMatch(s) ==
  LET starts == {i \in 1..Len(s) : MarkerAt(s, i)} IN
  IF starts = {} THEN << >>
  ELSE LET i == CHOOSE a \in starts : \A b \in starts : a <= b
       IN <<i, FirstClose(s, i)>>

\* titleMatch[1].trim()
titleOf(s) ==
  LET m == titleMatch(s) IN Trim(SubSeq(s, m[1] + TagLen(s, m[1]), m[2] - 1))

\* responseContent.replace(/\[THREAD_TITLE:\s*[^\]]+\]/g, '')
RECURSIVE stripTitle(_)
stripTitle(s) ==
  IF s = << >> THEN << >>
  ELSE IF MarkerAt(s, 1) THEN stripTitle(SubSeq(s, FirstClose(s, 1) + 1, Len(s)))
  ELSE <<Head(s)>> \o stripTitle(Tail(s))

\* (isBugDetectedOrFirst: the test with the || evaluated before the &&.)
isBugDetectedOrFirst(responseContent) ==
  /\ \/ Includes(responseContent, "Created GitHub issue #")
     \/ Includes(responseContent, "github.com/")
  /\ Includes(responseContent, "/issues/")

\* isBugDetected of the thread variant.
isBugDetected(responseContent) ==
  \/ Includes(responseContent, "Created GitHub issue #")
  \/ Includes(responseContent, "github.com/") /\ Includes(responseContent, "/issues/")

\* One content block of an assistant message, as the map callback sees it.
TextBlock(t) == [kind |-> "text", text |-> t]
StringBlock(t) == [kind |-> "string", text |-> t]
ToolUseBlock == [kind |-> "tool_use", text |-> << >>]

blockText(block) ==
  IF block.kind = "string" THEN block.text
  ELSE IF Truthy(block.text) THEN block.text
  ELSE << >>

\* jsonData.message.content.map(...).join('')
flatten(content) == Concat([i \in 1..Len(content) |-> blockText(content[i])])


VARIABLES
  threads,    \* the threads that exist, in creation order: thread id -> [name, sessionId]
  ha          \* per handler execution: its position and locals, those of
              \* processWithClaude included

aVars == <<threads, ha>>

S1 == <<"a", "1">>
S2 == <<"b", "-", "2">>

Hello == <<"H", " ">>
World == <<"w">>
Marked == <<TitleOpen, " ", "T", "]", "w">>
Blank == <<" ">>
HelloWorld == <<"H", " ", "w">>

Metadata(sid) ==
  [type |-> "metadata", subtype |-> "none", session_id |-> sid,
   content |-> << >>, result |-> Null]
Assistant(blocks) ==
  [type |-> "assistant", subtype |-> "none", session_id |-> Null,
   content |-> blocks, result |-> Null]
Result(subtype, text, sid) ==
  [type |-> "result", subtype |-> subtype, session_id |-> sid,
   content |-> << >>, result |-> text]
\* A line JSON.parse rejects.
NotJson ==
  [type |-> "notjson", subtype |-> "none", session_id |-> Null,
   content |-> << >>, result |-> Null]

\* The line `null`: JSON.parse returns null and `jsonData.type` throws.
JsonNull ==
  [type |-> "null", subtype |-> "none", session_id |-> Null,
   content |-> << >>, result |-> Null]
\* An object of another type, `{"type":"system",...}`.
JsonSystem ==
  [type |-> "system", subtype |-> "init", session_id |-> S2,
   content |-> <<TextBlock(World)>>, result |-> HelloWorld]

\* The lines a subprocess may write.
EventsA ==
  { Metadata(S1), Metadata(S2),
    Assistant(<<TextBlock(Hello)>>),
    Assistant(<<ToolUseBlock, TextBlock(World)>>),
    Assistant(<<ToolUseBlock>>),
    Assistant(<<TextBlock(Marked)>>),
    Assistant(<<StringBlock(Blank)>>),
    Result("success", HelloWorld, S2),
    Result("success", HelloWorld, Null),
    Result("success", << >>, S1),
    Result("error_max_turns", HelloWorld, S1),
    NotJson, JsonNull, JsonSystem }

\* Texts with title markers: two markers, a marker whose text is blank, a
\* lower-case tag.
MarkedTwice == <<"H", TitleOpen, "U", " ", "]", TitleOpen, "T", "]">>
MarkedBlank == <<TitleOpen, " ", "]", "w">>
MarkedLower == <<"[thread_title:", "T", "]">>
MarkedResult == <<TitleOpen, "R", "]", "w">>
MarkedInside == <<TagLeft, TitleOpen, "a", "]", TagRight, "b", "]">>

\* The lines of a subprocess that writes titles.
TitleEvents ==
  { Assistant(<<TextBlock(Hello)>>),
    Assistant(<<TextBlock(Marked)>>),
    Assistant(<<ToolUseBlock, TextBlock(MarkedTwice)>>),
    Assistant(<<TextBlock(MarkedBlank)>>),
    Assistant(<<TextBlock(MarkedLower)>>),
    Assistant(<<TextBlock(MarkedInside)>>),
    Result("success", MarkedResult, S1),
    Result("success", HelloWorld, S2),
    Result("error_max_turns", MarkedResult, S1) }

\* The lines of a subprocess that writes about issues: the three texts
\* looked for, one of them inside a title marker, and a result without any.
IssueEvents ==
  { Assistant(<<TextBlock(<<"Created GitHub issue #", "7">>)>>),
    Assistant(<<TextBlock(<<"w", "github.com/", "o">>)>>),
    Assistant(<<TextBlock(<<"/issues/", "7">>)>>),
    Assistant(<<TextBlock(<<TitleOpen, "github.com/", "]">>)>>),
    Result("success", <<"w">>, S1) }

\* Message texts received.
ContentsA == { <<"w">>, <<"Bobby">>, <<"Bobby", " ", "w">>, <<" ">> }

ErrorClaudeCode == <<"Error processing with Claude Code.">>
ErrorRequest == <<"Error processing your request.">>
NoOutputNotice == <<"Analysis complete - no output generated.">>
UnexpectedNotice == <<"I encountered an unexpected error. Please try again later.">>
NoSessionNotice == <<"Could not find session ID. Please start a new conversation by mentioning Bobby in the main channel.">>
DefaultTitle == <<"Analysis">>

NoResultA ==
  [success |-> FALSE, response |-> Null, isBug |-> FALSE, sessionId |-> Null,
   threadTitle |-> Null, returned |-> FALSE]

\* Lines 293 and 333: the record returned on failure.
\* (FailureAWithSession: a failure record that carries a session id.)
FailureAWithSession(text) ==
  [NoResultA EXCEPT !.response = text, !.returned = TRUE, !.sessionId = <<"s">>]
FailureA(text) == [NoResultA EXCEPT !.response = text, !.returned = TRUE]

IdleA ==
  [pc |-> "idle", channel |-> 0, bot |-> FALSE, content |-> << >>, isNew |-> FALSE,
   query |-> << >>, thread |-> 0,
   rl |-> "none", sessionIdArg |-> Null, spawned |-> FALSE, resume |-> Null,
   responseContent |-> << >>, lastMessageRef |-> FALSE, extractedSessionId |-> Null,
   threadTitle |-> Null, cur |-> NotJson, decoded |-> << >>,
   exitCode |-> 0, stderrBuffer |-> << >>,
   result |-> NoResultA, calls |-> << >>, threw |-> FALSE]

\* A platform call: which call of the source (sendChunk, sendResult,
\* sendFallback and sendSorry are the four channel.send calls; reply is
\* message.reply), on which channel (a thread's id, or 0 for the main channel),
\* with which text, and whether the platform accepted it; at is the number of
\* stream lines decoded when the call is made.
CallA(op, at, to, text, ok) ==
  [op |-> op, at |-> at, to |-> to, text |-> text, ok |-> ok]

\* isCallingBobby of the thread variant.
isCallingBobbyA(content) == Includes(toLowerCase(content), "bobby")

\* isNewBobbyCall / isThreadFollowUp for a message in channel c (0: not a thread).
isNewBobbyCall(c, content) == c = 0 /\ isCallingBobbyA(content)
isThreadFollowUp(c) == c # 0 /\ HasBobbyPrefix(threads[c].name)

\* The handler after processWithClaude returned res: lines 443-464 for a new
\* call, 495-497 for a follow-up, up to the next await.
\* (ReturnedSilently: the handler without its `if (!success)` apology.)
ReturnedSilently(r, res) ==
  [r EXCEPT !.result = [res EXCEPT !.returned = TRUE],
            !.pc = IF r.isNew /\ res.success /\ Truthy(res.sessionId) THEN "setName"
                   ELSE "done"]
\* (ReturnedRenamesAlways: the handler with the rename in the follow-up
\* branch as well.)
ReturnedRenamesAlways(r, res) ==
  [r EXCEPT !.result = [res EXCEPT !.returned = TRUE],
            !.pc = IF res.success /\ Truthy(res.sessionId) THEN "setName"
                   ELSE IF ~res.success THEN "sendSorry"
                   ELSE "done"]
Returned(r, res) ==
  [r EXCEPT !.result = [res EXCEPT !.returned = TRUE],
            !.pc = IF r.isNew /\ res.success /\ Truthy(res.sessionId) THEN "setName"
                   ELSE IF ~res.success THEN "sendSorry"
                   ELSE "done"]


\* (MessageCreateAFromAnyone: the handler without the test of author.bot.)
MessageCreateAFromAnyone(h) ==
  /\ ha[h].pc = "idle"
  /\ \E bot \in BOOLEAN, c \in 0..Len(threads), content \in ContentsA :
       LET fresh == [IdleA EXCEPT !.channel = c, !.bot = bot, !.content = content] IN
       ha' = [ha EXCEPT ![h] =
         IF isNewBobbyCall(c, content) THEN
           IF ~Truthy(extractQuery(content)) THEN [fresh EXCEPT !.pc = "done"]
           ELSE [fresh EXCEPT !.pc = "startThread", !.isNew = TRUE,
                              !.query = extractQuery(content)]
         ELSE IF isThreadFollowUp(c) THEN
           IF ~Truthy(Trim(content)) THEN [fresh EXCEPT !.pc = "done"]
           ELSE IF ~Truthy(extractSessionId(threads[c].name))
             THEN [fresh EXCEPT !.pc = "replyNoSession", !.query = Trim(content)]
           ELSE [fresh EXCEPT !.pc = "sendTyping", !.query = Trim(content), !.thread = c,
                              !.sessionIdArg = extractSessionId(threads[c].name)]
         ELSE [fresh EXCEPT !.pc = "done"]]
  /\ UNCHANGED threads

\* The handler's code up to its first await (lines 413-430 and 476-491), for
\* a message with the given bot flag, channel and text.
MessageCreateA(h) ==
  /\ ha[h].pc = "idle"
  /\ \E bot \in BOOLEAN, c \in 0..Len(threads), content \in ContentsA :
       LET fresh == [IdleA EXCEPT !.channel = c, !.bot = bot, !.content = content] IN
       ha' = [ha EXCEPT ![h] =
         IF bot THEN [fresh EXCEPT !.pc = "done"]
         ELSE IF isNewBobbyCall(c, content) THEN
           IF ~Truthy(extractQuery(content)) THEN [fresh EXCEPT !.pc = "done"]
           ELSE [fresh EXCEPT !.pc = "startThread", !.isNew = TRUE,
                              !.query = extractQuery(content)]
         ELSE IF isThreadFollowUp(c) THEN
           IF ~Truthy(Trim(content)) THEN [fresh EXCEPT !.pc = "done"]
           ELSE IF ~Truthy(extractSessionId(threads[c].name))
             THEN [fresh EXCEPT !.pc = "replyNoSession", !.query = Trim(content)]
           ELSE [fresh EXCEPT !.pc = "sendTyping", !.query = Trim(content), !.thread = c,
                              !.sessionIdArg = extractSessionId(threads[c].name)]
         ELSE [fresh EXCEPT !.pc = "done"]]
  /\ UNCHANGED threads

\* (ReplyNoSessionGoesOn: the reply without the `return` after it.)
ReplyNoSessionGoesOn(h) ==
  /\ ha[h].pc = "replyNoSession"
  /\ \E ok \in BOOLEAN :
       ha' = [ha EXCEPT ![h].pc = IF ok THEN "sendTyping" ELSE "done",
                        ![h].thread = ha[h].channel,
                        ![h].calls = Append(@, CallA("reply", Len(ha[h].decoded), ha[h].channel, NoSessionNotice, ok)),
                        ![h].threw = ~ok]
  /\ UNCHANGED threads

\* `await message.reply("Could not find session ID. ..."); return;`
ReplyNoSession(h) ==
  /\ ha[h].pc = "replyNoSession"
  /\ \E ok \in BOOLEAN :
       ha' = [ha EXCEPT ![h].pc = "done",
                        ![h].calls = Append(@, CallA("reply", Len(ha[h].decoded), ha[h].channel, NoSessionNotice, ok)),
                        ![h].threw = ~ok]
  /\ UNCHANGED threads

\* `const thread = await message.startThread({name: 'Bobby [PENDING]', ...})`
StartThread(h) ==
  /\ ha[h].pc = "startThread"
  /\ \E ok \in BOOLEAN :
       IF ok
         THEN /\ threads' = Append(threads, [name |-> PendingName, sessionId |-> Null])
              /\ ha' = [ha EXCEPT ![h].pc = "sendTyping",
                                  ![h].thread = Len(threads) + 1,
                                  ![h].calls = Append(@, CallA("startThread", Len(ha[h].decoded), 0, PendingName, TRUE))]
         ELSE /\ ha' = [ha EXCEPT ![h].pc = "replyUnexpected",
                                  ![h].calls = Append(@, CallA("startThread", Len(ha[h].decoded), 0, PendingName, FALSE))]
              /\ UNCHANGED threads

\* `await thread.sendTyping()` / `await message.channel.sendTyping()`
SendTyping(h) ==
  /\ ha[h].pc = "sendTyping"
  /\ \E ok \in BOOLEAN :
       ha' = [ha EXCEPT ![h].pc = IF ok THEN "spawn" ELSE "replyUnexpected",
                        ![h].calls = Append(@, CallA("sendTyping", Len(ha[h].decoded), ha[h].thread, << >>, ok))]
  /\ UNCHANGED threads

\* `if (sessionId) { args.push("--resume", sessionId); }`: the id given with
\* --resume, Null when the argument is not added.
\* (resumeArgNever: the arguments without it.)
resumeArgNever(sessionId) == Null
resumeArg(sessionId) == IF Truthy(sessionId) THEN sessionId ELSE Null

\* processWithClaude up to the stream loop: the arguments (--resume when
\* sessionId is set), spawn, and the locals of lines 170-174.  spawn throwing
\* lands in the outer catch.
Spawn(h) ==
  /\ ha[h].pc = "spawn"
  /\ \E ok \in BOOLEAN :
       ha' = [ha EXCEPT ![h] =
         IF ok
           THEN [@ EXCEPT !.pc = "stream", !.spawned = TRUE,
                          !.resume = resumeArg(ha[h].sessionIdArg),
                          !.extractedSessionId = ha[h].sessionIdArg]
           ELSE Returned(@, FailureA(ErrorRequest))]
  /\ UNCHANGED threads

\* Lines 188-192: the metadata branch.
onMetadata(r, ev) ==
  IF ev.type = "metadata" /\ Truthy(ev.session_id)
    THEN [r EXCEPT !.extractedSessionId = ev.session_id]
    ELSE r

\* (withTitleLastWins: the assignment without the test of threadTitle, under
\* which every marker replaces the title.)
withTitleLastWins(r, text) ==
  IF titleMatch(text) # << >>
    THEN [r EXCEPT !.threadTitle = titleOf(text)]
    ELSE r

\* `if (titleMatch && !threadTitle) threadTitle = titleMatch[1].trim()`
withTitle(r, text) ==
  IF titleMatch(text) # << >> /\ ~Truthy(r.threadTitle)
    THEN [r EXCEPT !.threadTitle = titleOf(text)]
    ELSE r

\* Lines 194-214: the assistant branch up to the send.
onAssistant(r, ev) ==
  IF ev.type = "assistant" /\ Truthy(flatten(ev.content))
    THEN withTitle([r EXCEPT !.responseContent = @ \o flatten(ev.content)],
                   flatten(ev.content))
    ELSE r

\* Lines 251-255: the session id of a result.
onResultSessionId(r, ev) ==
  IF Truthy(ev.session_id) /\ ~Truthy(r.extractedSessionId)
    THEN [r EXCEPT !.extractedSessionId = ev.session_id]
    ELSE r

\* Lines 228-238: the result branch up to the send.
onResultText(r, ev) ==
  IF Truthy(ev.result)
    THEN withTitle([r EXCEPT !.responseContent = ev.result], ev.result)
    ELSE r

IsSuccessResult(ev) == ev.type = "result" /\ ev.subtype = "success"

\* `if (content.trim())` before the send of a chunk
\* (ShouldSendChunkAlways: the test without trim, which sends blank chunks.)
ShouldSendChunkAlways(content) == Truthy(content)
ShouldSendChunk(content) == Truthy(Trim(content))

\* `if (jsonData.result)` ... `if (!lastMessageRef)` before the send of a result
\* (ShouldSendResultAlways: the send without the lastMessageRef test.)
ShouldSendResultAlways(r, ev) == Truthy(ev.result)
ShouldSendResult(r, ev) == Truthy(ev.result) /\ ~r.lastMessageRef

\* JSON.parse(line) or the first `jsonData.type` throws.
Throws(ev) == ev.type \in {"notjson", "null"}

\* The catch of the per-line try: the line is logged and skipped.
\* (onParseErrorAborts: the throw reaching the catch around the stream loop.)
onParseErrorAborts(r) == [r EXCEPT !.pc = "streamError"]
onParseError(r) == r

\* One line of the stream, up to the await of a send or to the next line.
onLine(r, ev) ==
  LET r0 == [r EXCEPT !.cur = ev, !.decoded = Append(@, ev)] IN
  IF Throws(ev) THEN onParseError(r0)
  ELSE IF ev.type = "assistant" THEN
    LET r1 == onAssistant(r0, ev) IN
    IF ShouldSendChunk(flatten(ev.content)) THEN [r1 EXCEPT !.pc = "sendChunk"] ELSE r1
  ELSE IF IsSuccessResult(ev) THEN
    LET r1 == onResultText(r0, ev) IN
    IF ShouldSendResult(r1, ev)
      THEN [r1 EXCEPT !.pc = "sendResult"]
      ELSE onResultSessionId(r1, ev)
  ELSE onMetadata(r0, ev)

\* The stream loop takes the next line, one of `lines` (at most maxLines of
\* them).
StreamLineOf(h, maxLines, lines) ==
  /\ ha[h].pc = "stream"
  /\ Len(ha[h].decoded) < maxLines
  /\ \E ev \in lines : ha' = [ha EXCEPT ![h] = onLine(@, ev)]
  /\ UNCHANGED threads

StreamLine(h, maxLines) == StreamLineOf(h, maxLines, EventsA)

\* `await channel.send(content); lastMessageRef = true;` in its try/catch
SendChunk(h) ==
  /\ ha[h].pc = "sendChunk"
  /\ \E ok \in BOOLEAN :
       ha' = [ha EXCEPT ![h].pc = "stream",
                        ![h].lastMessageRef = IF ok THEN TRUE ELSE @,
                        ![h].calls = Append(@, CallA("sendChunk", Len(ha[h].decoded), ha[h].thread,
                                                     flatten(ha[h].cur.content), ok))]
  /\ UNCHANGED threads

\* `await channel.send(responseContent); lastMessageRef = true;` in its
\* try/catch, then the session id of the result
SendResult(h) ==
  /\ ha[h].pc = "sendResult"
  /\ \E ok \in BOOLEAN :
       ha' = [ha EXCEPT ![h] =
         onResultSessionId(
           [@ EXCEPT !.pc = "stream",
                     !.lastMessageRef = IF ok THEN TRUE ELSE @,
                     !.calls = Append(@, CallA("sendResult", Len(ha[h].decoded), ha[h].thread,
                                               ha[h].responseContent, ok))],
           ha[h].cur)]
  /\ UNCHANGED threads


\* Lines 303-306: the text returned to the caller.
\* (userResponseUntrimmed: the text without the trim.)
userResponseUntrimmed(responseContent) == stripTitle(responseContent)
userResponse(responseContent) == Trim(stripTitle(responseContent))

\* Lines 322-328: the record returned on success.
SuccessA(r) ==
  [success |-> TRUE, response |-> userResponse(r.responseContent),
   isBug |-> isBugDetected(r.responseContent), sessionId |-> r.extractedSessionId,
   threadTitle |-> r.threadTitle, returned |-> TRUE]

\* Lines 280-293: a failed subprocess.  lastMessageRef is `true` once a
\* message was sent, so `lastMessageRef.edit(...)` throws a TypeError, which the
\* outer catch turns into its own failure record; no platform call is made.
FailedExit(r) ==
  IF r.lastMessageRef THEN FailureA(ErrorRequest) ELSE FailureA(ErrorClaudeCode)

\* `exitCode !== 0 || stderrBuffer`
\* (ExitFailedOnCodeOnly: the test that ignores standard error.)
ExitFailedOnCodeOnly(exitCode, stderrBuffer) == exitCode # 0
ExitFailed(exitCode, stderrBuffer) == exitCode # 0 \/ Truthy(stderrBuffer)

\* What a subprocess may have written to its standard error.
Stderrs == {<< >>, <<"E">>, <<"F">>}

\* The stream ends, stderr is collected and the subprocess exits (lines
\* 264-309), up to the return or to the await of the fallback send.
ProcExit(h) ==
  /\ ha[h].pc = "stream"
  /\ \E stderrBuffer \in Stderrs, exitCode \in {0, 1} :
       ha' = [ha EXCEPT ![h] =
         LET r == [@ EXCEPT !.exitCode = exitCode, !.stderrBuffer = stderrBuffer] IN
         IF ExitFailed(exitCode, stderrBuffer) THEN Returned(r, FailedExit(r))
         ELSE IF ~r.lastMessageRef THEN [r EXCEPT !.pc = "sendFallback"]
         ELSE Returned(r, SuccessA(r))]
  /\ UNCHANGED threads

\* Lines 309-317: `await channel.send(fallbackMsg)` in its try/catch, then
\* the return.
SendFallback(h) ==
  /\ ha[h].pc = "sendFallback"
  /\ \E ok \in BOOLEAN :
       ha' = [ha EXCEPT ![h] =
         Returned([@ EXCEPT !.lastMessageRef = IF ok THEN TRUE ELSE @,
                            !.calls = Append(@, CallA("sendFallback", Len(ha[h].decoded), ha[h].thread,
                               OrElse(userResponse(ha[h].responseContent), NoOutputNotice),
                               ok))],
                  SuccessA(ha[h]))]
  /\ UNCHANGED threads

\* `Bobby - ${finalTitle} - ${sessionId}` and the fallback `Bobby - ${sessionId}`
newThreadName(res) ==
  BobbyDash \o OrElse(res.threadTitle, DefaultTitle) \o Dash \o res.sessionId
fallbackThreadName(res) == BobbyDash \o res.sessionId

\* The thread's new name; sessionId records the session id the name was built
\* from.
Rename(ths, t, name, sid) == [ths EXCEPT ![t].name = name, ![t].sessionId = sid]

\* `await thread.setName(newThreadName)`
SetName(h) ==
  /\ ha[h].pc = "setName"
  /\ \E ok \in BOOLEAN :
       LET name == newThreadName(ha[h].result) IN
       /\ ha' = [ha EXCEPT ![h].pc = IF ok THEN "done" ELSE "setNameFallback",
                           ![h].calls = Append(@, CallA("setName", Len(ha[h].decoded), ha[h].thread, name, ok))]
       /\ threads' = IF ok THEN Rename(threads, ha[h].thread, name, ha[h].result.sessionId) ELSE threads

\* (SetNameFallbackThrows: the fallback without its own try/catch, whose
\* failure lands in the handler's catch.)
SetNameFallbackThrows(h) ==
  /\ ha[h].pc = "setNameFallback"
  /\ \E ok \in BOOLEAN :
       LET name == fallbackThreadName(ha[h].result) IN
       /\ ha' = [ha EXCEPT ![h].pc = IF ok THEN "done" ELSE "replyUnexpected",
                           ![h].calls = Append(@, CallA("setName", Len(ha[h].decoded), ha[h].thread, name, ok))]
       /\ threads' = IF ok THEN Rename(threads, ha[h].thread, name, ha[h].result.sessionId) ELSE threads

\* `await thread.setName(`Bobby - ${sessionId}`)` in the catch
SetNameFallback(h) ==
  /\ ha[h].pc = "setNameFallback"
  /\ \E ok \in BOOLEAN :
       LET name == fallbackThreadName(ha[h].result) IN
       /\ ha' = [ha EXCEPT ![h].pc = "done",
                           ![h].calls = Append(@, CallA("setName", Len(ha[h].decoded), ha[h].thread, name, ok))]
       /\ threads' = IF ok THEN Rename(threads, ha[h].thread, name, ha[h].result.sessionId) ELSE threads

\* (SendSorryWithStderr: the apology followed by the standard error text.)
SendSorryWithStderr(h) ==
  /\ ha[h].pc = "sendSorry"
  /\ \E ok \in BOOLEAN :
       ha' = [ha EXCEPT ![h].pc = IF ok THEN "done" ELSE "replyUnexpected",
                        ![h].calls = Append(@, CallA("sendSorry", Len(ha[h].decoded), ha[h].thread,
                                                     SorryNotice \o ha[h].stderrBuffer, ok))]
  /\ UNCHANGED threads

\* `await thread.send("Sorry, I encountered an error ...")`; a throw lands in
\* the handler's catch
SendSorry(h) ==
  /\ ha[h].pc = "sendSorry"
  /\ \E ok \in BOOLEAN :
       ha' = [ha EXCEPT ![h].pc = IF ok THEN "done" ELSE "replyUnexpected",
                        ![h].calls = Append(@, CallA("sendSorry", Len(ha[h].decoded), ha[h].thread, SorryNotice, ok))]
  /\ UNCHANGED threads

\* The handler's catch: `await message.reply(errorMsg)` in its own try/catch
ReplyUnexpected(h) ==
  /\ ha[h].pc = "replyUnexpected"
  /\ \E ok \in BOOLEAN :
       ha' = [ha EXCEPT ![h].pc = "done",
                        ![h].calls = Append(@, CallA("reply", Len(ha[h].decoded), ha[h].channel, UnexpectedNotice, ok))]
  /\ UNCHANGED threads


\* ------------------------------------------------------------------------
\* A function of the program applied on its own
\* ------------------------------------------------------------------------

VARIABLES
  arg,        \* the argument the function is applied to
  ret         \* what it returned, Unset before the call

fnVars == <<arg, ret>>

Unset == <<"<unset>">>

\* Thread names: 'Bobby - ', nothing, or something else, then up to MaxNameLen
\* characters among a title letter, a token character, space, hyphen and line
\* feed.
MaxNameLen == 6
NameChars == {"T", "a", " ", "-", "\n"}
NamePrefixes == {<< >>, BobbyDash, <<"T">> \o BobbyDash}
NameTails == UNION {[1..n -> NameChars] : n \in 0..MaxNameLen}
Names == {p \o t : p \in NamePrefixes, t \in NameTails}

\* The subprocess's standard output as the stream loop receives it: up to
\* MaxReads reads of up to MaxReadLen characters.  A character is a brace, the
\* whole contents of an object (h: an assistant message, m: metadata), a
\* space or a line feed.
MaxReads == 2
MaxReadLen == 3
StdoutChars == {"{", "}", "h", "m", " ", "\n"}
Reads == UNION {[1..n -> StdoutChars] : n \in 0..MaxReadLen}
ReadSeqs == UNION {[1..n -> Reads] : n \in 1..MaxReads}

\* String.prototype.split(sep)
RECURSIVE SplitOn(_, _)
SplitOn(text, sep) ==
  IF ~Includes(text, sep) THEN <<text>>
  ELSE LET i == CHOOSE k \in 1..Len(text) :
                  text[k] = sep /\ \A j \in 1..(k - 1) : text[j] # sep
       IN <<SubSeq(text, 1, i - 1)>> \o SplitOn(SubSeq(text, i + 1, Len(text)), sep)

\* text.split('\n')
Split(text) == SplitOn(text, "\n")

\* .filter(line => line.trim())
NonBlankLines(lines) == SelectSeq(lines, LAMBDA line : Truthy(Trim(line)))

\* JSON.parse(line): the contents of the object the line holds, white space
\* around its tokens allowed, or "?" when JSON.parse throws.
WithoutSpaces(line) == SelectSeq(line, LAMBDA c : c # " ")
ParseLine(line) ==
  LET t == WithoutSpaces(line) IN
  IF Len(t) = 3 /\ t[1] = "{" /\ t[2] \in {"h", "m"} /\ t[3] = "}" THEN t[2] ELSE "?"

\* The lines of one read, parsed one by one.
DecodeRead(text) ==
  LET lines == NonBlankLines(Split(text)) IN
  [i \in DOMAIN lines |-> ParseLine(lines[i])]

\* `for await (const chunk of proc.stdout)`: read after read.
RECURSIVE DecodeReads(_)
DecodeReads(reads) ==
  IF reads = << >> THEN << >>
  ELSE DecodeRead(Head(reads)) \o DecodeReads(Tail(reads))

\* The stream loop run over the reads in arg.
StreamLoop ==
  /\ ret = Unset
  /\ ret' = DecodeReads(arg)
  /\ UNCHANGED arg

\* The guildCreate handler: the value of ALLOWED_DISCORD_SERVERS (Null when
\* it is not set) and the id of the server joined.
MaxEnvLen == 4
EnvChars == {"1", "2", ",", " "}
GuildEnvs == {Null} \cup UNION {[1..n -> EnvChars] : n \in 0..MaxEnvLen}
GuildIds == {<<"1">>, <<"2">>, <<"1", "2">>}

\* (allowedServersUnfiltered: the list without the filter of blank entries.)
allowedServersUnfiltered(env) == SplitOn(OrElse(env, << >>), ",")

\* (process.env.ALLOWED_DISCORD_SERVERS || "").split(",").filter((id) => id.trim() !== "")
allowedServers(env) ==
  SelectSeq(SplitOn(OrElse(env, << >>), ","), LAMBDA id : Trim(id) # << >>)

\* Whether the handler calls guild.leave().
guildCreate(env, id) ==
  LET allowed == allowedServers(env) IN
  IF Len(allowed) = 0 THEN FALSE
  ELSE ~\E i \in DOMAIN allowed : allowed[i] = id

\* The handler run for the server and the environment in arg; guild.leave()
\* goes through or throws.
GuildCreate ==
  /\ ret = Unset
  /\ \E ok \in BOOLEAN :
       ret' = IF guildCreate(arg.env, arg.id)
                THEN <<"guild.leave", IF ok THEN "left" ELSE "threw">>
                ELSE <<"return">>
  /\ UNCHANGED arg

\* const sessionId = extractSessionId(message.channel.name)
ExtractSessionId ==
  /\ ret = Unset
  /\ ret' = extractSessionId(arg)
  /\ UNCHANGED arg

\* ------------------------------------------------------------------------
\* Specifications
\* ------------------------------------------------------------------------

vars == <<rlVars, memVars, hbVars, aVars, fnVars>>

EmptyTable == [x \in {} |-> 0]

InitLimiterVars ==
  /\ now = 0
  /\ rate_limits = EmptyTable
  /\ streak = [u \in Users |-> 0]
  /\ lastResult = [u \in Users |-> FALSE]
  /\ lastAccepted = [u \in Users |-> -1]
  /\ admitted = [u \in Users |-> 0]
  /\ sinceLast = [u \in Users |-> 0]
  /\ flip = [u \in Users |-> FALSE]

\* After ClientReady of the rate-limited variant: initClaudeMd has run.
InitMemoryVars ==
  /\ files = [x \in {CLAUDE_MD_PATH} |-> InitialClaudeMd]
  /\ hb = [h \in Handlers |-> IdleB]

\* No function is being applied on its own.
InitFnVars == arg = << >> /\ ret = Unset

InitThreadVars ==
  /\ threads = << >>
  /\ ha = [h \in Handlers |-> IdleA]

\* The rate limiter alone: checkRateLimit called for any user at any time.
InitLimiter == InitLimiterVars /\ InitMemoryVars /\ InitThreadVars /\ InitFnVars

NextLimiter ==
  \/ Tick /\ UNCHANGED <<memVars, hbVars, aVars, fnVars>>
  \/ \E u \in Users : CheckRateLimit(u) /\ UNCHANGED <<memVars, hbVars, aVars, fnVars>>

SpecLimiter == InitLimiter /\ [][NextLimiter]_vars

\* The rate-limited variant.  The rate_limits table outlives the process: a
\* run starts with no row, or with the row earlier runs left for u1.
StoredCounts == {0, RateLimitMax - 1, RateLimitMax}

InitB ==
  /\ now = 0
  /\ \E c \in StoredCounts :
       /\ rate_limits = IF c = 0 THEN EmptyTable
                        ELSE [u \in {"u1"} |-> [last_request |-> 0, request_count |-> c]]
       /\ streak = [u \in Users |-> IF u = "u1" THEN c ELSE 0]
       /\ lastResult = [u \in Users |-> u = "u1" /\ c > 0]
       /\ lastAccepted = [u \in Users |-> IF u = "u1" /\ c > 0 THEN 0 ELSE -1]
       /\ admitted = [u \in Users |-> IF u = "u1" THEN c ELSE 0]
       /\ sinceLast = [u \in Users |-> IF u = "u1" THEN c ELSE 0]
  /\ flip = [u \in Users |-> FALSE]
  /\ InitMemoryVars
  /\ InitThreadVars
  /\ InitFnVars

NextB ==
  \/ Tick /\ UNCHANGED <<memVars, hbVars, aVars, fnVars>>
  \/ \E h \in Handlers : MessageCreateB(h) /\ UNCHANGED <<aVars, fnVars>>
  \/ \E h \in Handlers : ReplyLimitB(h) /\ UNCHANGED <<aVars, fnVars>>
  \/ \E h \in Handlers : SendTypingB(h) /\ UNCHANGED <<aVars, fnVars>>
  \/ \E h \in Handlers : ProcessWithClaudeB(h) /\ UNCHANGED <<aVars, fnVars>>
  \/ \E h \in Handlers, ioOk \in BOOLEAN : SaveAccess(h, ioOk) /\ UNCHANGED <<aVars, fnVars>>
  \/ \E h \in Handlers, ioOk \in BOOLEAN : SaveRead(h, ioOk) /\ UNCHANGED <<aVars, fnVars>>
  \/ \E h \in Handlers, ioOk \in BOOLEAN : SaveAppend(h, ioOk) /\ UNCHANGED <<aVars, fnVars>>
  \/ \E h \in Handlers, ioOk \in BOOLEAN : SaveCreate(h, ioOk) /\ UNCHANGED <<aVars, fnVars>>
  \/ \E h \in Handlers, ioOk \in BOOLEAN : SaveIndexRead(h, ioOk) /\ UNCHANGED <<aVars, fnVars>>
  \/ \E h \in Handlers, ioOk \in BOOLEAN : SaveIndexWrite(h, ioOk) /\ UNCHANGED <<aVars, fnVars>>
  \/ \E h \in Handlers : ReplyAnswerB(h) /\ UNCHANGED <<aVars, fnVars>>
  \/ \E h \in Handlers : ReplyErrorB(h) /\ UNCHANGED <<aVars, fnVars>>

SpecB == InitB /\ [][NextB]_vars

\* processWithClaude alone: called for a new session, or to resume S1, with
\* the thread the handler passes it.
InitStream ==
  /\ InitLimiterVars /\ InitMemoryVars /\ InitFnVars
  /\ \E sid \in {Null, S1} :
       /\ threads = <<[name |-> IF sid = Null THEN PendingName
                                ELSE BobbyDash \o DefaultTitle \o Dash \o sid,
                       sessionId |-> sid]>>
       /\ ha = [h \in Handlers |->
                  IF h = "h1"
                    THEN [IdleA EXCEPT !.pc = "spawn", !.isNew = (sid = Null),
                                       !.channel = IF sid = Null THEN 0 ELSE 1,
                                       !.query = <<"w">>, !.thread = 1,
                                       !.sessionIdArg = sid]
                    ELSE IdleA]

NextStream ==
  \/ Spawn("h1") /\ UNCHANGED <<rlVars, memVars, hbVars, fnVars>>
  \/ StreamLine("h1", MaxEvents) /\ UNCHANGED <<rlVars, memVars, hbVars, fnVars>>
  \/ SendChunk("h1") /\ UNCHANGED <<rlVars, memVars, hbVars, fnVars>>
  \/ SendResult("h1") /\ UNCHANGED <<rlVars, memVars, hbVars, fnVars>>
  \/ ProcExit("h1") /\ UNCHANGED <<rlVars, memVars, hbVars, fnVars>>
  \/ SendFallback("h1") /\ UNCHANGED <<rlVars, memVars, hbVars, fnVars>>

SpecStream == InitStream /\ [][NextStream]_vars

\* The same query with a subprocess that writes titles.
NextTitles ==
  \/ Spawn("h1") /\ UNCHANGED <<rlVars, memVars, hbVars, fnVars>>
  \/ StreamLineOf("h1", MaxEvents, TitleEvents) /\ UNCHANGED <<rlVars, memVars, hbVars, fnVars>>
  \/ SendChunk("h1") /\ UNCHANGED <<rlVars, memVars, hbVars, fnVars>>
  \/ SendResult("h1") /\ UNCHANGED <<rlVars, memVars, hbVars, fnVars>>
  \/ ProcExit("h1") /\ UNCHANGED <<rlVars, memVars, hbVars, fnVars>>
  \/ SendFallback("h1") /\ UNCHANGED <<rlVars, memVars, hbVars, fnVars>>

SpecTitles == InitStream /\ [][NextTitles]_vars

\* The same query with a subprocess that writes about issues.
NextIssues ==
  \/ Spawn("h1") /\ UNCHANGED <<rlVars, memVars, hbVars, fnVars>>
  \/ StreamLineOf("h1", MaxEvents, IssueEvents) /\ UNCHANGED <<rlVars, memVars, hbVars, fnVars>>
  \/ SendChunk("h1") /\ UNCHANGED <<rlVars, memVars, hbVars, fnVars>>
  \/ SendResult("h1") /\ UNCHANGED <<rlVars, memVars, hbVars, fnVars>>
  \/ ProcExit("h1") /\ UNCHANGED <<rlVars, memVars, hbVars, fnVars>>
  \/ SendFallback("h1") /\ UNCHANGED <<rlVars, memVars, hbVars, fnVars>>

SpecIssues == InitStream /\ [][NextIssues]_vars

\* The thread variant handling one message.  Threads outlive the process: the
\* run starts with no thread, or with one that an earlier execution created
\* and named (or failed to name), or with one that a user created and named
\* 'Bobby -x'.
UserThreadName == <<"Bobby", " ", "-", "x">>
StoredThreads ==
  { [name |-> PendingName, sessionId |-> Null],
    [name |-> UserThreadName, sessionId |-> Null],
    [name |-> BobbyDash \o <<"T">> \o Dash \o S1, sessionId |-> S1],
    [name |-> BobbyDash \o DefaultTitle \o Dash \o S2, sessionId |-> S2],
    [name |-> BobbyDash \o S1, sessionId |-> S1] }

InitA ==
  /\ InitLimiterVars /\ InitMemoryVars /\ InitFnVars
  /\ threads \in {<< >>} \cup {<<t>> : t \in StoredThreads}
  /\ ha = [h \in Handlers |-> IdleA]

NextA ==
  \/ MessageCreateA("h1") /\ UNCHANGED <<rlVars, memVars, hbVars, fnVars>>
  \/ ReplyNoSession("h1") /\ UNCHANGED <<rlVars, memVars, hbVars, fnVars>>
  \/ StartThread("h1") /\ UNCHANGED <<rlVars, memVars, hbVars, fnVars>>
  \/ SendTyping("h1") /\ UNCHANGED <<rlVars, memVars, hbVars, fnVars>>
  \/ Spawn("h1") /\ UNCHANGED <<rlVars, memVars, hbVars, fnVars>>
  \/ StreamLine("h1", MaxEventsHandled) /\ UNCHANGED <<rlVars, memVars, hbVars, fnVars>>
  \/ SendChunk("h1") /\ UNCHANGED <<rlVars, memVars, hbVars, fnVars>>
  \/ SendResult("h1") /\ UNCHANGED <<rlVars, memVars, hbVars, fnVars>>
  \/ ProcExit("h1") /\ UNCHANGED <<rlVars, memVars, hbVars, fnVars>>
  \/ SendFallback("h1") /\ UNCHANGED <<rlVars, memVars, hbVars, fnVars>>
  \/ SetName("h1") /\ UNCHANGED <<rlVars, memVars, hbVars, fnVars>>
  \/ SetNameFallback("h1") /\ UNCHANGED <<rlVars, memVars, hbVars, fnVars>>
  \/ SendSorry("h1") /\ UNCHANGED <<rlVars, memVars, hbVars, fnVars>>
  \/ ReplyUnexpected("h1") /\ UNCHANGED <<rlVars, memVars, hbVars, fnVars>>

SpecA == InitA /\ [][NextA]_vars

\* ------------------------------------------------------------------------
\* Claims
\* ------------------------------------------------------------------------

\* extractSessionId applied to any thread name.
InitNames ==
  /\ InitLimiterVars /\ InitMemoryVars /\ InitThreadVars
  /\ arg \in Names
  /\ ret = Unset

NextNames == ExtractSessionId /\ UNCHANGED <<rlVars, memVars, hbVars, aVars>>

SpecNames == InitNames /\ [][NextNames]_vars

\* The memory store with a file system whose calls go through: handler
\* executions of the rate-limited variant from a fresh database and a fresh
\* index, overlapping at their awaits.
InitMemory ==
  InitLimiterVars /\ InitMemoryVars /\ InitThreadVars /\ InitFnVars

NextMemory ==
  \/ \E h \in Handlers : MessageCreateB(h) /\ UNCHANGED <<aVars, fnVars>>
  \/ \E h \in Handlers : SendTypingB(h) /\ UNCHANGED <<aVars, fnVars>>
  \/ \E h \in Handlers : ProcessWithClaudeB(h) /\ UNCHANGED <<aVars, fnVars>>
  \/ \E h \in Handlers : SaveAccess(h, TRUE) /\ UNCHANGED <<aVars, fnVars>>
  \/ \E h \in Handlers : SaveRead(h, TRUE) /\ UNCHANGED <<aVars, fnVars>>
  \/ \E h \in Handlers : SaveAppend(h, TRUE) /\ UNCHANGED <<aVars, fnVars>>
  \/ \E h \in Handlers : SaveCreate(h, TRUE) /\ UNCHANGED <<aVars, fnVars>>
  \/ \E h \in Handlers : SaveIndexRead(h, TRUE) /\ UNCHANGED <<aVars, fnVars>>
  \/ \E h \in Handlers : SaveIndexWrite(h, TRUE) /\ UNCHANGED <<aVars, fnVars>>
  \/ \E h \in Handlers : ReplyAnswerB(h) /\ UNCHANGED <<aVars, fnVars>>
  \/ \E h \in Handlers : ReplyErrorB(h) /\ UNCHANGED <<aVars, fnVars>>

SpecMemory == InitMemory /\ [][NextMemory]_vars

\* The same with the messages handled one after the other: a handler
\* execution starts when no other one is under way.
Running(h) == hb[h].pc \notin {"idle", "done"}
OneAtATime == \A h1 \in Handlers, h2 \in Handlers : Running(h1) /\ Running(h2) => h1 = h2

NextMemorySeq ==
  \/ \E h \in Handlers : MessageCreateB(h) /\ OneAtATime' /\ UNCHANGED <<aVars, fnVars>>
  \/ \E h \in Handlers : SendTypingB(h) /\ UNCHANGED <<aVars, fnVars>>
  \/ \E h \in Handlers : ProcessWithClaudeB(h) /\ UNCHANGED <<aVars, fnVars>>
  \/ \E h \in Handlers : SaveAccess(h, TRUE) /\ UNCHANGED <<aVars, fnVars>>
  \/ \E h \in Handlers : SaveRead(h, TRUE) /\ UNCHANGED <<aVars, fnVars>>
  \/ \E h \in Handlers : SaveAppend(h, TRUE) /\ UNCHANGED <<aVars, fnVars>>
  \/ \E h \in Handlers : SaveCreate(h, TRUE) /\ UNCHANGED <<aVars, fnVars>>
  \/ \E h \in Handlers : SaveIndexRead(h, TRUE) /\ UNCHANGED <<aVars, fnVars>>
  \/ \E h \in Handlers : SaveIndexWrite(h, TRUE) /\ UNCHANGED <<aVars, fnVars>>
  \/ \E h \in Handlers : ReplyAnswerB(h) /\ UNCHANGED <<aVars, fnVars>>
  \/ \E h \in Handlers : ReplyErrorB(h) /\ UNCHANGED <<aVars, fnVars>>

SpecMemorySeq == InitMemory /\ [][NextMemorySeq]_vars

\* Messages handled one after the other, with file system calls that may fail.
NextMemoryIo ==
  \/ \E h \in Handlers : MessageCreateB(h) /\ OneAtATime' /\ UNCHANGED <<aVars, fnVars>>
  \/ \E h \in Handlers : SendTypingB(h) /\ UNCHANGED <<aVars, fnVars>>
  \/ \E h \in Handlers : ProcessWithClaudeB(h) /\ UNCHANGED <<aVars, fnVars>>
  \/ \E h \in Handlers, ioOk \in BOOLEAN : SaveAccess(h, ioOk) /\ UNCHANGED <<aVars, fnVars>>
  \/ \E h \in Handlers, ioOk \in BOOLEAN : SaveRead(h, ioOk) /\ UNCHANGED <<aVars, fnVars>>
  \/ \E h \in Handlers, ioOk \in BOOLEAN : SaveAppend(h, ioOk) /\ UNCHANGED <<aVars, fnVars>>
  \/ \E h \in Handlers, ioOk \in BOOLEAN : SaveCreate(h, ioOk) /\ UNCHANGED <<aVars, fnVars>>
  \/ \E h \in Handlers, ioOk \in BOOLEAN : SaveIndexRead(h, ioOk) /\ UNCHANGED <<aVars, fnVars>>
  \/ \E h \in Handlers, ioOk \in BOOLEAN : SaveIndexWrite(h, ioOk) /\ UNCHANGED <<aVars, fnVars>>
  \/ \E h \in Handlers : ReplyAnswerB(h) /\ UNCHANGED <<aVars, fnVars>>
  \/ \E h \in Handlers : ReplyErrorB(h) /\ UNCHANGED <<aVars, fnVars>>

SpecMemoryIo == InitMemory /\ [][NextMemoryIo]_vars

\* The thread variant with messages handled concurrently: the handler
\* executions overlap at their awaits.  One thread of an earlier query exists;
\* the subprocesses write nothing before they exit.
InitThreads ==
  /\ InitLimiterVars /\ InitMemoryVars /\ InitFnVars
  /\ threads = <<[name |-> BobbyDash \o <<"T">> \o Dash \o S1, sessionId |-> S1]>>
  /\ ha = [h \in Handlers |-> IdleA]

NextThreads ==
  \/ \E h \in Handlers : MessageCreateA(h) /\ UNCHANGED <<rlVars, memVars, hbVars, fnVars>>
  \/ \E h \in Handlers : StartThread(h) /\ UNCHANGED <<rlVars, memVars, hbVars, fnVars>>
  \/ \E h \in Handlers : SendTyping(h) /\ UNCHANGED <<rlVars, memVars, hbVars, fnVars>>
  \/ \E h \in Handlers : Spawn(h) /\ UNCHANGED <<rlVars, memVars, hbVars, fnVars>>
  \/ \E h \in Handlers : ProcExit(h) /\ UNCHANGED <<rlVars, memVars, hbVars, fnVars>>
  \/ \E h \in Handlers : SendFallback(h) /\ UNCHANGED <<rlVars, memVars, hbVars, fnVars>>
  \/ \E h \in Handlers : SendSorry(h) /\ UNCHANGED <<rlVars, memVars, hbVars, fnVars>>
  \/ \E h \in Handlers : ReplyUnexpected(h) /\ UNCHANGED <<rlVars, memVars, hbVars, fnVars>>

SpecThreads == InitThreads /\ [][NextThreads]_vars

\* The stream loop applied to any standard output, read in any pieces.
InitReads ==
  /\ InitLimiterVars /\ InitMemoryVars /\ InitThreadVars
  /\ arg \in ReadSeqs
  /\ ret = Unset

NextReads == StreamLoop /\ UNCHANGED <<rlVars, memVars, hbVars, aVars>>

SpecReads == InitReads /\ [][NextReads]_vars

\* The bot joins a server, under any value of the allow-list.
InitGuild ==
  /\ InitLimiterVars /\ InitMemoryVars /\ InitThreadVars
  /\ arg \in [env : GuildEnvs, id : GuildIds]
  /\ ret = Unset

NextGuild == GuildCreate /\ UNCHANGED <<rlVars, memVars, hbVars, aVars>>

SpecGuild == InitGuild /\ [][NextGuild]_vars

\* ------------------------------------------------------------------------
\* Properties
\* ------------------------------------------------------------------------

\* C1: for a user that starts with no row, as long as every call comes at most
\* 3,600,000 ms after the previous accepted call, calls 1..20 return true and
\* the 21st (and any later one) returns false.
C1_First20Then21stDenied ==
  \A u \in Users :
    /\ streak[u] \in 1..RateLimitMax => lastResult[u] = TRUE
    /\ streak[u] = RateLimitMax + 1 => lastResult[u] = FALSE

\* The 21st call of an unbroken run has been made, at the very end of the window.
C1_Witness ==
  \E u \in Users :
    /\ streak[u] = RateLimitMax + 1
    /\ now - lastAccepted[u] = HourMs

\* C2: however the executions of the handler interleave, a user is never
\* admitted more often than the stored count allows: the calls admitted since
\* the last gap of more than an hour are at most 20 and are exactly the stored
\* request_count, so with a stored count of 19 and two queries of that user in
\* flight only one is admitted, and none is while the count is 20.
C2_NoOverAdmission ==
  \A u \in Users :
    /\ admitted[u] <= RateLimitMax
    /\ u \in DOMAIN rate_limits => rate_limits[u].request_count = admitted[u]

\* Two queries of one user in flight at once, the stored count at 20: one was
\* admitted as the 20th, the other was denied.
C2_Witness ==
  \E h1 \in Handlers, h2 \in Handlers :
    /\ hb[h1].author = hb[h2].author
    /\ hb[h1].rl = "allowed" /\ hb[h1].pc \in {"sendTyping", "claude", "saveAccess"}
    /\ hb[h2].rl = "denied" /\ hb[h2].pc = "replyLimit"
    /\ admitted[hb[h1].author] = RateLimitMax
    /\ now = 0

\* C3: a subprocess is launched only by a handler execution whose
\* checkRateLimit call for the author returned true, and an execution whose
\* check returned false tells the user and launches nothing; for new calls and
\* for thread follow-ups.
C3_LaunchOnlyAfterAllowedCheck ==
  \A h \in Handlers :
    /\ ha[h].spawned => ha[h].rl = "allowed"
    /\ hb[h].spawned => hb[h].rl = "allowed"
    /\ hb[h].rl = "denied" /\ hb[h].pc = "done" =>
         /\ ~hb[h].spawned
         /\ \E i \in DOMAIN hb[h].calls : hb[h].calls[i].text = RateLimitNotice

\* ------------------------------------------------------------------------
\* The messages of a query (thread variant).  A message is sent by a send or
\* reply call; the platform accepts the call (ok) or rejects it.
\* ------------------------------------------------------------------------

IsChunkSend(c) == c.op = "sendChunk"
IsStreamSend(c) == c.op \in {"sendChunk", "sendResult"}
IsFallbackSend(c) == c.op = "sendFallback"
IsMessage(c) == c.op \in {"sendChunk", "sendResult", "sendFallback", "sendSorry", "reply"}
TextsOf(cs) == [i \in DOMAIN cs |-> cs[i].text]

ChunkSends(r) == SelectSeq(r.calls, IsChunkSend)
StreamSends(r) == SelectSeq(r.calls, IsStreamSend)
FallbackSends(r) == SelectSeq(r.calls, IsFallbackSend)
MessagesOf(r) == SelectSeq(r.calls, IsMessage)
AllAccepted(r) == \A i \in DOMAIN r.calls : r.calls[i].ok

\* The assistant lines with non-blank flattened text among the lines whose
\* handling is over: all the decoded ones but the one whose send is awaited.
IsNonBlankChunk(ev) == ev.type = "assistant" /\ Trim(flatten(ev.content)) # << >>
HandledLines(r) ==
  IF r.pc \in {"sendChunk", "sendResult"}
    THEN SubSeq(r.decoded, 1, Len(r.decoded) - 1)
    ELSE r.decoded
NonBlankChunkTexts(r) ==
  LET chunks == SelectSeq(HandledLines(r), IsNonBlankChunk) IN
  [i \in DOMAIN chunks |-> flatten(chunks[i].content)]

\* C4: once processWithClaude has returned for a subprocess that exited with
\* a non-zero code or wrote to standard error, the outcome is success:false,
\* whatever was streamed; and when the handler is done it has sent the error
\* notice to the conversation after every chunk message.
C4_FailedExitReportsFailure ==
  \A h \in Handlers :
    LET r == ha[h] IN
    r.spawned /\ r.result.returned /\ (r.exitCode # 0 \/ r.stderrBuffer # << >>) =>
      /\ r.result.success = FALSE
      /\ r.pc = "done" =>
           \E i \in DOMAIN r.calls :
             /\ r.calls[i].op = "sendSorry"
             /\ r.calls[i].to = r.thread
             /\ r.calls[i].text = SorryNotice
             /\ \A j \in DOMAIN r.calls : IsStreamSend(r.calls[j]) => j < i

\* A chunk was delivered and a success Result received, the subprocess exited
\* with code 0 but wrote to standard error, and the notice was delivered.
C4_Witness ==
  \E h \in Handlers :
    LET r == ha[h] IN
    /\ r.pc = "done" /\ r.spawned
    /\ r.exitCode = 0 /\ r.stderrBuffer # << >>
    /\ r.lastMessageRef
    /\ \E k \in DOMAIN r.decoded : IsSuccessResult(r.decoded[k])
    /\ \E i \in DOMAIN r.calls : r.calls[i].op = "sendSorry" /\ r.calls[i].ok

\* The first session id known for a query: the one passed in, else the one
\* of the first metadata line or success result that carries one.
RECURSIVE FirstSessionId(_)
FirstSessionId(lines) ==
  IF lines = << >> THEN Null
  ELSE IF (Head(lines).type = "metadata" \/ IsSuccessResult(Head(lines)))
          /\ Truthy(Head(lines).session_id)
    THEN Head(lines).session_id
  ELSE FirstSessionId(Tail(lines))
FirstKnownSessionId(r) == OrElse(r.sessionIdArg, FirstSessionId(r.decoded))

\* C5: the sessionId processWithClaude returns on success is the first
\* session id that was known for the query; no later line changes it.
C5_SessionIdFirstWriteWins ==
  \A h \in Handlers :
    LET r == ha[h] IN
    r.result.returned /\ r.result.success =>
      r.result.sessionId = FirstKnownSessionId(r)

\* C6: the messages sent while the stream is read (the sends of the assistant
\* branch and of the result branch) are, in order, the flattened texts of the
\* assistant lines with non-blank text: one per such line.
C6_StreamedMessagesAreChunkTexts ==
  \A h \in Handlers :
    ha[h].spawned => TextsOf(StreamSends(ha[h])) = NonBlankChunkTexts(ha[h])

\* C6, amended: the messages sent for assistant lines are, in order, the
\* flattened texts of the assistant lines with non-blank text: one send per
\* such line, made before the next line is handled, none for a blank line; a
\* block that is not text adds nothing to the text.
C6_ChunkMessagesAreChunkTexts ==
  \A h \in Handlers :
    LET r == ha[h] IN
    r.spawned =>
      /\ TextsOf(ChunkSends(r)) = NonBlankChunkTexts(r)
      /\ \A i \in DOMAIN r.calls :
           IsChunkSend(r.calls[i]) =>
             /\ r.calls[i].at \in DOMAIN r.decoded
             /\ r.calls[i].text = flatten(r.decoded[r.calls[i].at].content)
      /\ r.pc = "sendChunk" => IsNonBlankChunk(r.cur) /\ r.cur = r.decoded[Len(r.decoded)]

\* Three lines were handled, two chunks around a blank one: two messages.
C6_Witness ==
  \E h \in Handlers :
    LET r == ha[h] IN
    /\ r.pc = "stream" /\ Len(r.decoded) = 3
    /\ flatten(r.decoded[1].content) = Hello
    /\ flatten(r.decoded[2].content) = Blank /\ r.decoded[2].type = "assistant"
    /\ r.decoded[3].content = <<ToolUseBlock, TextBlock(World)>>
    /\ TextsOf(r.calls) = <<Hello, World>>

\* The sends made for the line decoded k-th.
SendsAt(r, k, op) ==
  SelectSeq(r.calls, LAMBDA c : c.op = op /\ c.at = k)
AcceptedBefore(r, k, ops) ==
  \E i \in DOMAIN r.calls : r.calls[i].op \in ops /\ r.calls[i].ok /\ r.calls[i].at < k
IsResultWithText(ev) == IsSuccessResult(ev) /\ Truthy(ev.result)

\* C7: for a success result with text, once it is handled: no message was
\* sent for it if a chunk message had been delivered before; exactly one, with
\* the result's text, if no message of the query had been delivered before.
\* And the chunks "H ", "w", result "H w" give exactly the two messages "H ", "w".
C7_ResultSentOnlyWhenNothingWasSent ==
  \A h \in Handlers :
    LET r == ha[h] IN
    /\ \A k \in DOMAIN HandledLines(r) :
         IsResultWithText(r.decoded[k]) =>
           /\ AcceptedBefore(r, k, {"sendChunk"}) => SendsAt(r, k, "sendResult") = << >>
           /\ ~AcceptedBefore(r, k, {"sendChunk", "sendResult"}) =>
                TextsOf(SendsAt(r, k, "sendResult")) = <<r.decoded[k].result>>
    /\ /\ r.pc = "stream" /\ AllAccepted(r) /\ Len(r.decoded) = 3
       /\ r.decoded[1].type = "assistant" /\ flatten(r.decoded[1].content) = Hello
       /\ r.decoded[2].type = "assistant" /\ flatten(r.decoded[2].content) = World
       /\ IsResultWithText(r.decoded[3])
       => TextsOf(MessagesOf(r)) = <<Hello, World>>

\* "H ", "w" and the result "H w" were handled, every send accepted.
C7_Witness ==
  \E h \in Handlers :
    LET r == ha[h] IN
    /\ r.pc = "stream" /\ AllAccepted(r) /\ Len(r.decoded) = 3
    /\ r.decoded[1] = Assistant(<<TextBlock(Hello)>>)
    /\ r.decoded[2] = Assistant(<<ToolUseBlock, TextBlock(World)>>)
    /\ r.decoded[3] = Result("success", HelloWorld, S2)
    /\ Len(MessagesOf(r)) = 2

\* C8: a handler execution that is done for a new call or a follow-up with a
\* non-empty query, and whose platform calls were all accepted, has sent at
\* least one message.
C8_NeverSilent ==
  \A h \in Handlers :
    LET r == ha[h] IN
    r.pc = "done" /\ r.query # << >> /\ AllAccepted(r) => MessagesOf(r) # << >>

\* spawn threw inside processWithClaude; the handler sent the apology.
C8_Witness ==
  \E h \in Handlers :
    LET r == ha[h] IN
    /\ r.pc = "done" /\ r.query # << >> /\ AllAccepted(r)
    /\ ~r.spawned /\ r.result.returned /\ r.result.response = ErrorRequest
    /\ TextsOf(MessagesOf(r)) = <<SorryNotice>>

\* C9: once processWithClaude has returned for a subprocess that exited
\* with code 0 and empty standard error, and no message was delivered while the
\* stream was read, exactly one fallback message was sent, after the sends of
\* the stream: the accumulated text without title markers, trimmed, if that is not
\* empty, else the 'no output' notice; and the outcome is success:true.
C9_ExactlyOneFallback ==
  \A h \in Handlers :
    LET r == ha[h]
        stripped == Trim(stripTitle(r.responseContent))
    IN
    /\ r.spawned /\ r.result.returned
    /\ r.exitCode = 0 /\ r.stderrBuffer = << >>
    /\ ~AcceptedBefore(r, Len(r.decoded) + 1, {"sendChunk", "sendResult"})
    =>
      /\ r.result.success
      /\ Len(FallbackSends(r)) = 1
      /\ \A i \in DOMAIN r.calls :
           IsFallbackSend(r.calls[i]) =>
             /\ r.calls[i].to = r.thread
             /\ r.calls[i].text = IF stripped # << >> THEN stripped ELSE NoOutputNotice
             /\ \A j \in DOMAIN r.calls : IsStreamSend(r.calls[j]) => j < i

\* Only a blank chunk was received, nothing was sent while the stream was
\* read, the subprocess exited cleanly: the notice was sent.
C9_Witness ==
  \E h \in Handlers :
    LET r == ha[h] IN
    /\ r.spawned /\ r.result.returned /\ r.result.success
    /\ r.exitCode = 0 /\ r.stderrBuffer = << >>
    /\ StreamSends(r) = << >>
    /\ r.responseContent = Blank
    /\ TextsOf(FallbackSends(r)) = <<NoOutputNotice>>

\* C10: once the new-call handler is done and a rename of its thread was
\* accepted, with the full name or with the abbreviated one, the thread is a
\* follow-up surface and extractSessionId of its name is the session id of the
\* query.
C10_GivenNamesResolve ==
  \A h \in Handlers :
    LET r == ha[h] IN
    /\ r.pc = "done" /\ r.isNew
    /\ \E i \in DOMAIN r.calls : r.calls[i].op = "setName" /\ r.calls[i].ok
    =>
      /\ HasBobbyPrefix(threads[r.thread].name)
      /\ extractSessionId(threads[r.thread].name) = r.result.sessionId

\* ------------------------------------------------------------------------
\* Thread names, read without the regular expression
\* ------------------------------------------------------------------------

\* Where the last ' - ' of a name starts, or 0.
LastSepAt(name) ==
  LET is == {i \in 1..(Len(name) - 2) : SubSeq(name, i, i + 2) = Dash} IN
  IF is = {} THEN 0 ELSE CHOOSE i \in is : \A j \in is : j <= i

\* The segment after the last ' - '.
TrailingSegment(name) == SubSeq(name, LastSepAt(name) + 3, Len(name))

\* A non-empty string of a-f, 0-9 and '-'.
IsToken(s) == Len(s) >= 1 /\ \A i \in 1..Len(s) : s[i] \in HexDash

\* The titles for which name is 'Bobby - <title> - <token>'.
TitlesOf(name) ==
  {SubSeq(name, 5, k) : k \in
     {k \in 5..(Len(name) - 4) :
        /\ SubSeq(name, 1, 4) = BobbyDash
        /\ SubSeq(name, k + 1, k + 3) = Dash
        /\ IsToken(SubSeq(name, k + 4, Len(name)))}}

OnOneLine(s) == \A i \in 1..Len(s) : s[i] # "\n"

\* C11: for a name 'Bobby - <title> - <token>', extractSessionId returns the
\* segment after the last ' - '; for a name without ' - ' or whose segment
\* after the last ' - ' is not a token, it returns null.
C11_TrailingTokenDecoded ==
  ret # Unset =>
    /\ TitlesOf(arg) # {} => ret = TrailingSegment(arg)
    /\ LastSepAt(arg) = 0 \/ ~IsToken(TrailingSegment(arg)) => ret = Null

\* C11, amended: the same for the names whose title has no line break.
C11_TrailingTokenDecodedOnOneLine ==
  ret # Unset =>
    /\ (\E t \in TitlesOf(arg) : OnOneLine(t)) => ret = TrailingSegment(arg)
    /\ LastSepAt(arg) = 0 \/ ~IsToken(TrailingSegment(arg)) => ret = Null

\* 'Bobby - T - -a' was decoded to '-a'.
C11_Witness ==
  /\ arg = BobbyDash \o <<"T", " ", "-", " ", "-", "a">>
  /\ ret = <<"-", "a">>

\* ------------------------------------------------------------------------
\* The memory store's documents
\* ------------------------------------------------------------------------

Topics == {TopicBugs, TopicGeneral}
Quiescent == \A h \in Handlers : ~Running(h)
Index == files[CLAUDE_MD_PATH]
LinksTo(topic) == {i \in DOMAIN Index : Index[i] = LinkLine(topic)}
BlocksIn(topic) == {i \in DOMAIN files[filePath(topic)] : files[filePath(topic)][i].kind = "block"}

\* C12: when no saveToMemory call is under way, every topic file that exists
\* has exactly one link line in the index.
C12_EveryTopicFileIndexedOnce ==
  Quiescent =>
    \A topic \in Topics :
      filePath(topic) \in DOMAIN files => Cardinality(LinksTo(topic)) = 1

\* The handler executions whose saveToMemory call for the topic returned true.
SavedTo(topic) ==
  {h \in Handlers : hb[h].saved = "true" /\ topicOf(hb[h].result) = topic}

\* C13: when no saveToMemory call is under way and two calls for one topic
\* have returned true, the topic file holds two query/response blocks and the
\* index exactly one link to it.
C13_NoLostUpdate ==
  Quiescent =>
    \A topic \in Topics :
      Cardinality(SavedTo(topic)) = 2 =>
        /\ filePath(topic) \in DOMAIN files
        /\ Cardinality(BlocksIn(topic)) = 2
        /\ Cardinality(LinksTo(topic)) = 1

\* The subprocess a handler execution spawned has not exited yet.
SubprocessRunning(h) ==
  ha[h].spawned /\ ha[h].pc \in {"stream", "sendChunk", "sendResult"}

\* C14: two subprocesses that are running at the same time belong to queries
\* of different threads.
C14_OneSubprocessPerThread ==
  \A h1 \in Handlers, h2 \in Handlers :
    SubprocessRunning(h1) /\ SubprocessRunning(h2) /\ h1 # h2 =>
      ha[h1].thread # ha[h2].thread

\* ------------------------------------------------------------------------
\* The rate limiter's record and its calls
\* ------------------------------------------------------------------------

\* The step is a checkRateLimit call for u.
IsCallFor(u) == flip'[u] # flip[u]

\* C15: for every user with a row, request_count is the number of the user's
\* calls that returned true at or after the time the row holds.
C15_CountIsAcceptedSinceStoredTime ==
  \A u \in DOMAIN rate_limits : rate_limits[u].request_count = sinceLast[u]

\* C15, amended: for every user with a row, the row holds the time of the
\* user's latest call that returned true, and request_count is the number of
\* the user's calls that returned true since the last gap of more than
\* 3,600,000 ms between two such calls.
C15_CountIsAcceptedSinceLastReset ==
  \A u \in Users :
    /\ u \in DOMAIN rate_limits <=> lastAccepted[u] # -1
    /\ u \in DOMAIN rate_limits =>
         /\ rate_limits[u].last_request = lastAccepted[u]
         /\ rate_limits[u].request_count = admitted[u]

\* Three calls were accepted, the latest one an hour after the others.
C15_Witness ==
  \E u \in DOMAIN rate_limits :
    /\ rate_limits[u].request_count = 3
    /\ rate_limits[u].last_request = HourMs
    /\ sinceLast[u] = 1

\* C16: a call for a user with no row, or made more than 3,600,000 ms after
\* the row's last_request, returns true and leaves the row at count 1 and
\* last_request now, whatever the count was; a call made exactly 3,600,000 ms
\* after it does not reset: it adds one to a count under 20 and is denied at 20.
C16_ResetAfterMoreThanAnHour ==
  [][\A u \in Users :
       IsCallFor(u) =>
         /\ u \notin DOMAIN rate_limits \/ now - rate_limits[u].last_request > HourMs =>
              /\ lastResult'[u] = TRUE
              /\ rate_limits'[u] = [last_request |-> now, request_count |-> 1]
         /\ u \in DOMAIN rate_limits /\ now - rate_limits[u].last_request = HourMs =>
              IF rate_limits[u].request_count < RateLimitMax
                THEN /\ lastResult'[u] = TRUE
                     /\ rate_limits'[u].request_count = rate_limits[u].request_count + 1
                ELSE /\ lastResult'[u] = FALSE
                     /\ rate_limits'[u] = rate_limits[u]
    ]_vars

\* A user whose count had reached 20 was admitted again, with count 1, one
\* millisecond after the hour.
C16_Witness ==
  \E u \in DOMAIN rate_limits :
    /\ streak[u] = -1 /\ admitted[u] = 1 /\ lastResult[u] = TRUE
    /\ rate_limits[u] = [last_request |-> HourMs + 1, request_count |-> 1]

\* C17: a call that returns false leaves the whole table as it was.
C17_DenialLeavesTableUnchanged ==
  [][\A u \in Users :
       IsCallFor(u) /\ lastResult'[u] = FALSE => rate_limits' = rate_limits
    ]_vars

\* A user at count 20 was denied exactly an hour after the last accepted
\* call, and the row still holds that call's time.
C17_Witness ==
  \E u \in DOMAIN rate_limits :
    /\ lastResult[u] = FALSE
    /\ now = HourMs
    /\ rate_limits[u] = [last_request |-> 0, request_count |-> RateLimitMax]

\* ------------------------------------------------------------------------
\* Lines that are skipped
\* ------------------------------------------------------------------------

\* A line that is no JSON, or JSON that is no metadata, assistant or result
\* object.
IsUnrecognised(ev) == ev.type \notin {"metadata", "assistant", "result"}

\* A handler execution's state without the record of the lines read.
QueryState(r) ==
  [pc |-> r.pc, extractedSessionId |-> r.extractedSessionId,
   threadTitle |-> r.threadTitle, responseContent |-> r.responseContent,
   lastMessageRef |-> r.lastMessageRef, result |-> r.result,
   calls |-> [i \in DOMAIN r.calls |-> [r.calls[i] EXCEPT !.at = 0]]]

\* The state had the unrecognised lines never been read.
RECURSIVE WithoutUnrecognised(_)
WithoutUnrecognised(lines) ==
  IF lines = << >> THEN << >>
  ELSE IF IsUnrecognised(Head(lines)) THEN WithoutUnrecognised(Tail(lines))
  ELSE <<Head(lines)>> \o WithoutUnrecognised(Tail(lines))
Scrubbed(r) == [r EXCEPT !.decoded = WithoutUnrecognised(@), !.cur = NotJson]

\* The step reads one more line of the stream of h.
ReadsLine(h) == Len(ha'[h].decoded) = Len(ha[h].decoded) + 1

\* C18: reading an unrecognised line sends nothing and changes nothing of the
\* query's state (session id, title, accumulated text, emitted flag, position);
\* and every line is handled as it would be had no unrecognised line been read
\* before it.
C18_UnrecognisedLinesAreSkipped ==
  [][\A h \in Handlers :
       ReadsLine(h) =>
         /\ IsUnrecognised(ha'[h].cur) => QueryState(ha'[h]) = QueryState(ha[h])
         /\ QueryState(ha'[h]) = QueryState(onLine(Scrubbed(ha[h]), ha'[h].cur))
    ]_vars

\* `null`, then a chunk, then a line that is no JSON: one message, and the
\* stream is still being read.
C18_Witness ==
  \E h \in Handlers :
    LET r == ha[h] IN
    /\ r.pc = "stream" /\ Len(r.decoded) = 3
    /\ r.decoded[1] = JsonNull
    /\ r.decoded[2] = Assistant(<<TextBlock(Hello)>>)
    /\ r.decoded[3] = NotJson
    /\ r.responseContent = Hello
    /\ Len(r.calls) = 1 /\ r.calls[1].ok

\* ------------------------------------------------------------------------
\* Reads of the standard output
\* ------------------------------------------------------------------------

\* The objects among the lines decoded.
Objects(decoded) == SelectSeq(decoded, LAMBDA d : d # "?")

\* C19: the objects decoded from the reads are those decoded from the
\* concatenated output read at once.
C19_DecodingIgnoresReadBoundaries ==
  ret # Unset => Objects(ret) = Objects(DecodeReads(<<Concat(arg)>>))

\* ------------------------------------------------------------------------
\* Thread titles
\* ------------------------------------------------------------------------

\* The text of a line in which a title is looked for: the content of an
\* assistant chunk, the text of a successful result.
ScannedText(ev) ==
  IF ev.type = "assistant" THEN flatten(ev.content)
  ELSE IF IsSuccessResult(ev) THEN ev.result
  ELSE Null

\* The trimmed texts of the markers of the lines decoded, in order (of each
\* line its first marker).
RECURSIVE MarkerTexts(_)
MarkerTexts(decoded) ==
  IF decoded = << >> THEN << >>
  ELSE LET text == ScannedText(Head(decoded)) IN
       (IF Truthy(text) /\ titleMatch(text) # << >> THEN <<titleOf(text)>> ELSE << >>)
         \o MarkerTexts(Tail(decoded))

FirstOr(texts, none) == IF texts = << >> THEN none ELSE Head(texts)

\* The query's title, while it runs and as it is returned.
TitleIs(h, title) ==
  /\ ha[h].pc # "idle" => ha[h].threadTitle = title
  /\ ha[h].result.returned /\ ha[h].result.success => ha[h].result.threadTitle = title

\* C20 as stated: the title is the trimmed text of the first marker of the
\* lines decoded so far, and none when no line had a marker.
C20_TitleIsFirstMarker ==
  \A h \in Handlers : TitleIs(h, FirstOr(MarkerTexts(ha[h].decoded), Null))

\* C20: the title is the trimmed text of the first marker whose text is not
\* blank; it is empty when all markers so far had blank text, and there is
\* none when no line had a marker.  A lower-case tag is no marker.
C20_TitleIsFirstNonBlankMarker ==
  \A h \in Handlers :
    LET texts == MarkerTexts(ha[h].decoded) IN
    TitleIs(h, FirstOr(SelectSeq(texts, Truthy), FirstOr(texts, Null)))

\* A query that read a lower-case tag, then a result with a marker, then a
\* chunk with another marker, and returned the title of the result.
C20_Witness ==
  \E h \in Handlers :
    /\ ha[h].decoded = <<Assistant(<<TextBlock(MarkedLower)>>),
                         Result("success", MarkedResult, S1),
                         Assistant(<<TextBlock(Marked)>>)>>
    /\ ha[h].result.returned /\ ha[h].result.success
    /\ ha[h].result.threadTitle = <<"R">>

\* ------------------------------------------------------------------------
\* The text returned
\* ------------------------------------------------------------------------

\* The text accumulated from the lines decoded: the text of the last
\* successful result with text and the chunk texts after it, all chunk texts
\* when there was no such result.
RECURSIVE Accumulated(_)
Accumulated(decoded) ==
  IF decoded = << >> THEN << >>
  ELSE LET ev == decoded[Len(decoded)]
           before == SubSeq(decoded, 1, Len(decoded) - 1)
       IN IF IsResultWithText(ev) THEN ev.result
          ELSE IF ev.type = "assistant" THEN Accumulated(before) \o flatten(ev.content)
          ELSE Accumulated(before)

HasMarker(s) == \E i \in 1..Len(s) : MarkerAt(s, i)

\* C21: the text returned on success holds no title marker, has no white
\* space at either end, and is the accumulated text without its markers.
C21_ReturnedTextHasNoMarker ==
  \A h \in Handlers :
    LET r == ha[h] IN
    r.result.returned /\ r.result.success =>
      /\ ~HasMarker(r.result.response)
      /\ Trim(r.result.response) = r.result.response
      /\ r.result.response = Trim(stripTitle(Accumulated(r.decoded)))

\* ------------------------------------------------------------------------
\* saveToMemory call by call
\* ------------------------------------------------------------------------

\* The topic files' names, written out.
ExpectedPath(topic) ==
  IF topic = TopicBugs THEN <<"docs/", "b", "u", "g", "s", ".md">>
  ELSE <<"docs/", "g", "e", "n", "e", "r", "a", "l", "-",
         "q", "u", "e", "r", "i", "e", "s", ".md">>

\* The steps of a saveToMemory call that write: the new file, the index, the
\* appended file.
CreatesFile(h) == hb[h].pc = "saveCreate" /\ hb'[h].pc = "saveIndexRead"
WritesIndex(h) == hb[h].pc = "saveIndexWrite" /\ hb'[h].saved = "true"
AppendsFile(h) == hb[h].pc = "saveAppend" /\ hb'[h].saved = "true"

\* C22: with messages handled one at a time and no I/O failure, a call for a
\* topic creates the file of the expected name, a heading and one block in it,
\* only when that file does not exist, and then puts a link to it in the place
\* of the index's placeholder line; a call for a topic whose file exists
\* appends one block to it and leaves the index as it is.
C22_FirstSaveCreatesLaterSavesAppend ==
  [][\A h \in Handlers :
       LET topic == topicOf(hb[h].result)
           path == ExpectedPath(topic)
           block == BlockOf(hb[h].query, hb[h].result.response)
       IN /\ CreatesFile(h) =>
               /\ path \notin DOMAIN files
               /\ files' = WriteFile(files, path, <<HeadingOf(topic), block>>)
          /\ WritesIndex(h) =>
               /\ \E i \in DOMAIN Index :
                    files' = WriteFile(files, CLAUDE_MD_PATH,
                                       [Index EXCEPT ![i] = LinkLine(topic)])
               /\ \A i \in DOMAIN Index : files'[CLAUDE_MD_PATH][i] # PlaceholderLine
          /\ AppendsFile(h) =>
               /\ path \in DOMAIN files
               /\ files' = WriteFile(files, path, Append(files[path], block))
    ]_vars

\* The handler execution is over and its saveToMemory call returned.
SaveReturned(h) == hb[h].pc = "done" /\ hb[h].saved # "none"

\* C23: a saveToMemory call returns true only if every read and write it
\* made went through (a failed fs.access, which is how a missing file shows,
\* apart); and whatever it returns, the handler's next and last call is the
\* reply with the answer.
C23_IoFailureReturnsFalse ==
  \A h \in Handlers :
    /\ hb[h].saved = "true" => hb[h].ioErrors \subseteq {"access"}
    /\ SaveReturned(h) =>
         LET last == hb[h].calls[Len(hb[h].calls)] IN
         last.op = "reply" /\ last.text = hb[h].result.response

\* The topic files that exist.
TopicFiles == DOMAIN files \ {CLAUDE_MD_PATH}

\* C24: a topic file is only ever extended: every step leaves each topic file
\* in place, with its heading and with every part it held.
C24_TopicFilesOnlyGrow ==
  [][\A path \in TopicFiles :
       /\ path \in DOMAIN files'
       /\ files'[path][1] = files[path][1]
       /\ \A i \in DOMAIN files[path] :
            \E j \in DOMAIN files'[path] : files'[path][j] = files[path][i]
    ]_vars

\* ------------------------------------------------------------------------
\* Renaming the thread
\* ------------------------------------------------------------------------

\* The positions of the setName calls a handler execution made.
SetNames(r) == {i \in DOMAIN r.calls : r.calls[i].op = "setName"}

\* C25: a failed first setName is followed by a setName with the name
\* 'Bobby - <session id>' and by nothing else; a second setName is made only
\* after a failed first one; after a setName the handler makes no other call,
\* in particular no error reply, and it ends without an exception.
C25_RenameFailureIsHarmless ==
  \A h \in Handlers :
    LET r == ha[h]
        n == Len(r.calls)
    IN \A i \in SetNames(r) :
         /\ \A j \in (i + 1)..n : r.calls[j].op = "setName"
         /\ i + 1 \in SetNames(r) =>
              /\ ~r.calls[i].ok
              /\ r.calls[i + 1].text = BobbyDash \o r.result.sessionId
              /\ i + 1 = n
         /\ i = n /\ i - 1 \notin SetNames(r) =>
              IF r.calls[i].ok THEN r.pc = "done" ELSE r.pc = "setNameFallback"
         /\ r.pc = "done" => ~r.threw

\* Both renames failed and the handler execution is over.
C25_Witness ==
  \E h \in Handlers :
    LET r == ha[h]
        n == Len(r.calls)
    IN /\ r.pc = "done" /\ n >= 2
       /\ r.calls[n - 1].op = "setName" /\ ~r.calls[n - 1].ok
       /\ r.calls[n].op = "setName" /\ ~r.calls[n].ok

\* ------------------------------------------------------------------------
\* New calls and follow-ups
\* ------------------------------------------------------------------------

\* The handler takes a message.
TakesMessage(h) == ha[h].pc = "idle" /\ ha'[h].pc # "idle"
\* It goes on as for a new call, as for a follow-up.
ActsAsNewCall(h) == ha'[h].pc = "startThread"
ActsAsFollowUp(h) == ha'[h].pc \in {"replyNoSession", "sendTyping"}

\* C26: a message the handler acts on is handled as a new call or as a
\* follow-up and never as both; as a new call only outside any thread, as a
\* follow-up only in a thread whose name starts with 'Bobby - '.
C26_NewCallOrFollowUp ==
  [][\A h \in Handlers :
       TakesMessage(h) =>
         LET c == ha'[h].channel IN
         /\ ~(ActsAsNewCall(h) /\ ActsAsFollowUp(h))
         /\ ha'[h].pc # "done" => ActsAsNewCall(h) \/ ActsAsFollowUp(h)
         /\ ActsAsNewCall(h) => c = 0 /\ ha'[h].isNew
         /\ ActsAsFollowUp(h) => c # 0 /\ StartsWith(threads[c].name, BobbyDash)
    ]_vars

\* The handler execution took a non-empty message of a thread that is a
\* follow-up surface and whose name yields no session id.
FollowUpWithoutSession(r) ==
  /\ r.pc # "idle" /\ r.channel # 0 /\ r.query # << >>
  /\ HasBobbyPrefix(threads[r.channel].name)
  /\ ~Truthy(extractSessionId(threads[r.channel].name))

\* C27: such a handler execution launches no subprocess, and its one platform
\* call is the reply with the notice to start a new conversation.
C27_NoSessionNoSubprocess ==
  \A h \in Handlers :
    LET r == ha[h] IN
    FollowUpWithoutSession(r) =>
      /\ ~r.spawned
      /\ r.pc \in {"replyNoSession", "done"}
      /\ r.pc = "replyNoSession" => r.calls = << >>
      /\ r.pc = "done" =>
           /\ Len(r.calls) = 1
           /\ r.calls[1].op = "reply" /\ r.calls[1].to = r.channel
           /\ r.calls[1].text = NoSessionNotice

\* A message in the thread named 'Bobby - a1' was answered with the notice.
C27_Witness ==
  \E h \in Handlers :
    LET r == ha[h] IN
    /\ FollowUpWithoutSession(r) /\ r.pc = "done"
    /\ threads[r.channel].name = BobbyDash \o S1
    /\ r.calls[1].ok

\* ------------------------------------------------------------------------
\* Issue filing
\* ------------------------------------------------------------------------

Has(text, literal) == \E i \in DOMAIN text : text[i] = literal

\* C28: isBug of a successful return is true exactly when the accumulated
\* text, markers included, holds 'Created GitHub issue #' or holds both
\* 'github.com/' and '/issues/'.
C28_IssueFilingDetected ==
  \A h \in Handlers :
    LET r == ha[h]
        text == Accumulated(r.decoded)
    IN r.result.returned /\ r.result.success =>
         (r.result.isBug <=>
            \/ Has(text, "Created GitHub issue #")
            \/ Has(text, "github.com/") /\ Has(text, "/issues/"))

\* 'Created GitHub issue #' alone gives true.
C28_Witness ==
  \E h \in Handlers :
    LET r == ha[h] IN
    /\ r.result.returned /\ r.result.success /\ r.result.isBug
    /\ r.decoded = <<Assistant(<<TextBlock(<<"Created GitHub issue #", "7">>)>>)>>

\* ------------------------------------------------------------------------
\* What failures show
\* ------------------------------------------------------------------------

\* The texts sent on failure paths.
FailureNotices == {SorryNotice, UnexpectedNotice, NoSessionNotice}

\* What a handler execution was given, standard error text apart: the
\* message, the lines decoded, the subprocess's launch and exit code, and
\* which platform calls went through.
OksOf(r) == [i \in DOMAIN r.calls |-> r.calls[i].ok]
GivenTo(r) ==
  <<r.channel, r.isNew, r.query, r.decoded, r.spawned, r.exitCode,
    Truthy(r.stderrBuffer), OksOf(r)>>
\* What it sent: the calls and their texts.
SentBy(r) == [i \in DOMAIN r.calls |-> <<r.calls[i].op, r.calls[i].text>>]

\* C29: an apology or an error reply is one of the fixed notices, no text
\* sent holds the standard error text, and two handler executions that were
\* given the same, but for the text of a non-empty standard error, sent the
\* same.
C29_FailuresShowNoDiagnostics ==
  /\ \A h \in Handlers :
       \A i \in DOMAIN ha[h].calls :
         LET c == ha[h].calls[i] IN
         /\ c.op \in {"sendSorry", "reply"} => c.text \in FailureNotices
         /\ \A e \in Stderrs : e # << >> => ~Has(c.text, e[1])
  /\ \A h1 \in Handlers, h2 \in Handlers :
       /\ ha[h1].pc = "done" /\ ha[h2].pc = "done"
       /\ GivenTo(ha[h1]) = GivenTo(ha[h2])
       => SentBy(ha[h1]) = SentBy(ha[h2])

\* Two handler executions apologised after subprocesses whose standard error
\* texts differed.
C29_Witness ==
  \E h1 \in Handlers, h2 \in Handlers :
    /\ ha[h1].pc = "done" /\ ha[h2].pc = "done"
    /\ GivenTo(ha[h1]) = GivenTo(ha[h2])
    /\ ha[h1].stderrBuffer = <<"E">> /\ ha[h2].stderrBuffer = <<"F">>
    /\ \E i \in DOMAIN ha[h1].calls : ha[h1].calls[i].op = "sendSorry"

\* ------------------------------------------------------------------------
\* The allow-list of servers
\* ------------------------------------------------------------------------

\* The comma-separated entries of a text: its longest pieces without a comma.
IsEntryAt(text, i, j) ==
  /\ i <= j + 1
  /\ \A k \in i..j : text[k] # ","
  /\ i = 1 \/ text[i - 1] = ","
  /\ j = Len(text) \/ text[j + 1] = ","
IsEntry(text, e) ==
  \E i \in 1..(Len(text) + 1), j \in 0..Len(text) :
    IsEntryAt(text, i, j) /\ e = [k \in 1..(j - i + 1) |-> text[i + k - 1]]
HasNonBlankEntry(text) ==
  \E i \in 1..Len(text) : text[i] \notin {",", " "}

\* C30: the handler leaves the server joined exactly when the allow-list has
\* an entry that is not blank and the server's id is none of its entries; it
\* never leaves when ALLOWED_DISCORD_SERVERS is unset or empty.
C30_LeavesUnlistedServersOnly ==
  ret # Unset =>
    LET text == IF arg.env = Null THEN << >> ELSE arg.env IN
    /\ ret[1] = "guild.leave" <=> HasNonBlankEntry(text) /\ ~IsEntry(text, arg.id)
    /\ text = << >> => ret[1] # "guild.leave"

\* With the list "1,2" the bot left the server 12 and stayed in the server 2.
C30_Witness ==
  /\ arg.env = <<"1", ",", "2">>
  /\ \/ arg.id = <<"1", "2">> /\ ret = <<"guild.leave", "left">>
     \/ arg.id = <<"2">> /\ ret = <<"return">>

\* ------------------------------------------------------------------------
\* Who renames a thread
\* ------------------------------------------------------------------------

\* The handler execution is at one of its two setName calls for thread t.
RenamesThread(h, t) ==
  /\ ha[h].pc \in {"setName", "setNameFallback"}
  /\ ha[h].thread = t

\* C31: a thread's name changes only in a setName call of the new-call
\* handler that created the thread, after its query succeeded and returned a
\* session id, and only while the name is still 'Bobby [PENDING]', which
\* encodes no session id.
C31_NamedOnceByItsNewCall ==
  [][\A t \in DOMAIN threads :
       threads'[t].name # threads[t].name =>
         /\ threads[t].name = PendingName
         /\ ~Truthy(extractSessionId(threads[t].name))
         /\ \E h \in Handlers :
              /\ RenamesThread(h, t)
              /\ ha[h].isNew
              /\ ha[h].result.success /\ Truthy(ha[h].result.sessionId)
    ]_vars

\* A follow-up in the thread 'Bobby - T - a1' succeeded with the session id
\* b-2 reported by the subprocess, and the thread kept its name.
C31_Witness ==
  \E h \in Handlers :
    LET r == ha[h] IN
    /\ r.pc = "done" /\ ~r.isNew /\ r.thread = 1
    /\ r.result.success /\ r.result.sessionId = S2
    /\ threads[1].name = BobbyDash \o <<"T">> \o Dash \o S1

\* ------------------------------------------------------------------------
\* The resume directive
\* ------------------------------------------------------------------------

\* C32: a subprocess launched for a new call has no --resume; one launched
\* for a follow-up has it, with the session id decoded from the name of the
\* thread the message is in, the segment after the name's last ' - '.
C32_ResumeOnlyForFollowUps ==
  \A h \in Handlers :
    LET r == ha[h] IN
    r.spawned =>
      /\ r.isNew => r.resume = Null
      /\ ~r.isNew =>
           /\ Truthy(r.resume)
           /\ r.resume = extractSessionId(threads[r.thread].name)
           /\ r.resume = TrailingSegment(threads[r.thread].name)

\* A follow-up in the thread 'Bobby - Analysis - b-2' was launched with
\* --resume b-2.
C32_Witness ==
  \E h \in Handlers :
    LET r == ha[h] IN
    /\ r.spawned /\ ~r.isNew /\ r.resume = S2
    /\ threads[r.thread].name = BobbyDash \o DefaultTitle \o Dash \o S2

\* ------------------------------------------------------------------------
\* Messages of automated authors
\* ------------------------------------------------------------------------

\* C33: a handler execution for a message of an automated author is over at
\* once: it created no thread, launched no subprocess, made no platform call
\* and, in the rate-limited variant, did not call checkRateLimit.
C33_BotMessagesAreIgnored ==
  \A h \in Handlers :
    /\ ha[h].bot =>
         /\ ha[h].pc = "done" /\ ha[h].calls = << >>
         /\ ~ha[h].spawned /\ ha[h].thread = 0
    /\ hb[h].bot =>
         /\ hb[h].pc = "done" /\ hb[h].calls = << >>
         /\ ~hb[h].spawned /\ hb[h].rl = "none"

\* A message of an automated author in the thread 'Bobby - T - a1' was
\* ignored.
C33_Witness ==
  \E h \in Handlers :
    /\ ha[h].bot /\ ha[h].pc = "done" /\ ha[h].channel = 1
    /\ threads[1].name = BobbyDash \o <<"T">> \o Dash \o S1

\* ------------------------------------------------------------------------
\* Messages in the bot's threads
\* ------------------------------------------------------------------------

\* The handler execution is over for a non-empty message of a person in a
\* thread the bot created.
InOwnThread(r) ==
  /\ r.pc = "done" /\ ~r.bot /\ Trim(r.content) # << >>
  /\ r.channel # 0 /\ threads[r.channel].name # UserThreadName

\* C34: such a handler execution, when the platform accepted its calls, has
\* sent a message: an answer, an apology or the notice to start anew.
C34_OwnThreadsAreAnswered ==
  \A h \in Handlers :
    InOwnThread(ha[h]) /\ AllAccepted(ha[h]) => MessagesOf(ha[h]) # << >>

\* ------------------------------------------------------------------------
\* A failure after messages were sent
\* ------------------------------------------------------------------------

IsDelivered(c) == c.op \in {"sendChunk", "sendResult"} /\ c.ok
IsApology(c) == c.op \in {"sendSorry", "reply"}
IsSorry(c) == c.op = "sendSorry"

\* processWithClaude returned a failure after the conversation had taken a
\* chunk or a result message of this query.
FailedAfterMessages(r) ==
  /\ r.result.returned /\ ~r.result.success
  /\ SelectSeq(r.calls, IsDelivered) # << >>

InsideProcess(r) == r.pc \in {"spawn", "stream", "sendChunk", "sendResult", "sendFallback"}

\* C36: a step taken inside processWithClaude stays inside it or ends it with
\* a returned record, never in the handler's catch; a returned record has a
\* boolean success, and a null session id when success is false; and the
\* thread of a new call whose query failed keeps the name it was created
\* with, no rename having been tried.
C36_ProcessAlwaysReturns ==
  [][\A h \in Handlers :
       LET r == ha'[h] IN
       /\ InsideProcess(ha[h]) =>
            /\ r.pc # "replyUnexpected" /\ ~r.threw
            /\ ~InsideProcess(r) => r.result.returned
       /\ r.result.returned =>
            /\ r.result.success \in BOOLEAN
            /\ ~r.result.success => r.result.sessionId = Null
            /\ ~r.result.success /\ r.isNew =>
                 /\ r.pc \notin {"setName", "setNameFallback"}
                 /\ threads'[r.thread].name = PendingName
                 /\ \A i \in DOMAIN r.calls : r.calls[i].op # "setName"]_vars

\* A first query that failed after the subprocess had reported a session id.
C36_Witness ==
  \E h \in Handlers :
    /\ ha[h].pc = "done" /\ ha[h].isNew /\ ha[h].spawned
    /\ ha[h].result.returned /\ ~ha[h].result.success
    /\ ha[h].extractedSessionId # Null
    /\ threads[ha[h].thread].name = PendingName

\* ------------------------------------------------------------------------
\* Title markers in the messages sent
\* ------------------------------------------------------------------------

\* C37: no message the conversation has taken (a chunk, a result, the
\* fallback, an apology or a reply) holds a title marker.
C37_NoMarkerIsSent ==
  \A h \in Handlers :
    \A i \in DOMAIN ha[h].calls :
      IsMessage(ha[h].calls[i]) /\ ha[h].calls[i].ok => ~HasMarker(ha[h].calls[i].text)

\* ------------------------------------------------------------------------
\* The rows of the rate_limits table
\* ------------------------------------------------------------------------

\* C38: after every step each stored row has a request count from 1 to
\* RateLimitMax and a last request time that is not ahead of the clock; a row
\* once stored stays stored, and its last request time never goes back, the
\* clock never going back.
C38_RowsStayInRange ==
  [][/\ now' >= now
     /\ \A u \in DOMAIN rate_limits' :
          /\ rate_limits'[u].request_count \in 1..RateLimitMax
          /\ rate_limits'[u].last_request <= now'
     /\ \A u \in DOMAIN rate_limits :
          /\ u \in DOMAIN rate_limits'
          /\ rate_limits'[u].last_request >= rate_limits[u].last_request]_vars

\* A full row whose time has moved on, after a denied call.
C38_Witness ==
  \E u \in DOMAIN rate_limits :
    /\ rate_limits[u].request_count = RateLimitMax
    /\ rate_limits[u].last_request = HourMs
    /\ ~lastResult[u]
    /\ now > HourMs

====
